---- MODULE Spec2Model ----
(***************************************************************************)
(* Model of the progress tracker of backend/app/services/                  *)
(* processing_status.py, of the upload pipeline that drives it             *)
(* (backend/app/api/endpoints/upload.py), of PDFProcessor.process_pdf      *)
(* (backend/app/services/pdf_processor.py), of BatchProcessor,             *)
(* CacheManager and DatasetOptimizer (backend/app/core/optimization.py)    *)
(* and of ApprovalWorkflow (backend/app/services/approval_workflow.py).    *)
(*                                                                         *)
(* Conventions.  Python's None is the string "None"; an Optional step      *)
(* reference is the empty set or the singleton of the step's list index.   *)
(* List indices are the source's, counted from 0.  datetime values are     *)
(* abstracted to "None" / "set".  Percentages are kept in tenths of a      *)
(* percent (12.5 is 125), which is the precision round(x, 1) keeps.        *)
(***************************************************************************)
EXTENDS Integers, Sequences, FiniteSets, TLC

VARIABLES
    tracker,     \* the ProcessingTracker object
    queues,      \* the asyncio.Queue objects handed to subscribe
    lastCall,    \* the last tracker / queue call made, with its result
    calls,       \* number of calls made to the tracker and its queues
    pc,          \* position of the process_pdf_file background task
    block,       \* the "Step k" block of process_pdf_file the task is in
    registered,  \* whether active_trackers holds the tracker's id
    stageLog,    \* what start_next_step returned to the task, in order
    caught,      \* the exception process_pdf_file's handler caught
    wsPc,        \* position of each websocket_processing_status handler
    documents,   \* the Document table as process_pdf leaves it
    pdfCalls,    \* finished process_pdf calls: content and outcome
    pdfRun,      \* the process_pdf call in progress
    extractions, \* per content, number of page-extraction runs
    batch,       \* a BatchProcessor and its process_batch call in progress
    cache,       \* a CacheManager, its clock and its last call
    dataset,     \* a DatasetOptimizer and its process_chunks call
    approval,    \* a Proposal under ApprovalWorkflow and its last call
    active_trackers, \* the job registry, the clock and the last registry call
    batchQueue,  \* a BatchProcessor's _queue and its get_batch callers
    batchStats   \* a BatchProcessor's _stats under concurrent process_batch

trackerVars == <<tracker, queues, lastCall, calls>>
pipeVars == <<pc, block, registered, stageLog, caught, wsPc>>
pdfVars == <<documents, pdfCalls, pdfRun, extractions>>
optVars == <<batch, cache, dataset, approval>>
extraVars == <<active_trackers, batchQueue, batchStats>>
vars == <<tracker, queues, lastCall, calls, pc, block, registered, stageLog,
          caught, wsPc, documents, pdfCalls, pdfRun, extractions,
          batch, cache, dataset, approval,
          active_trackers, batchQueue, batchStats>>

----------------------------------------------------------------------------
(* Bounds of the model *)

\* an arbitrary caller makes at most this many calls to a tracker
MaxCalls == 5

----------------------------------------------------------------------------
(* ProcessingStatus *)

None == "None"

\* the objects a specification does not exercise
OptIdle ==
    /\ batch = None
    /\ cache = None
    /\ dataset = None
    /\ approval = None

ExtraIdle ==
    /\ active_trackers = None
    /\ batchQueue = None
    /\ batchStats = None

WAITING == "waiting"
PROCESSING == "processing"
SUCCESS == "success"
ERROR == "error"
SKIPPED == "skipped"

Queues == {"q1", "q2"}
\* the queues of the websocket connections opened while a job is processed
WsClients == {"q1"}
\* the optional details / reason argument of the transitions
DetailsArgs == {None, "details"}

Tenths(p) == p * 10

----------------------------------------------------------------------------
(* ProcessingStep *)

ProcessingStep(percentage_of_total) ==
    [percentage_of_total |-> percentage_of_total,
     status |-> WAITING,
     details |-> None,
     start_time |-> None,
     end_time |-> None,
     error |-> None]

step_start(step, details) ==
    [step EXCEPT !.status = PROCESSING,
                 !.start_time = "set",
                 !.details = IF details # None THEN details ELSE @]

step_complete(step, details) ==
    [step EXCEPT !.status = SUCCESS,
                 !.end_time = "set",
                 !.details = IF details # None THEN details ELSE @]

step_fail(step, error, details) ==
    [step EXCEPT !.status = ERROR,
                 !.end_time = "set",
                 !.error = error,
                 !.details = IF details # None THEN details ELSE @]

step_skip(step, reason) ==
    [step EXCEPT !.status = SKIPPED,
                 !.end_time = "set",
                 !.details = IF reason # None THEN reason ELSE @]

----------------------------------------------------------------------------
(* ProcessingTracker *)

\* __init__ followed by one add_step per weight
ProcessingTracker(weights) ==
    [steps |-> [i \in 0..(Len(weights) - 1) |-> ProcessingStep(weights[i + 1])],
     current_step_index |-> -1,
     overall_progress |-> 0,
     end_time |-> None,
     is_complete |-> FALSE,
     subscribers |-> {}]

NumSteps(t) == Cardinality(DOMAIN t.steps)

\* the list index self.steps[i] reads: a negative i counts from the end
PyIndex(i, n) == IF i < 0 THEN n + i ELSE i

get_current_step(t) ==
    IF 0 <= t.current_step_index /\ t.current_step_index < NumSteps(t)
    THEN {t.current_step_index}
    ELSE {}

\* what one step adds to completed_percentage, in tenths
\* a stage in processing counted with its full weight
StepShare_processing_in_full(t, i) ==
    IF i <= t.current_step_index /\ t.steps[i].status \in {SUCCESS, PROCESSING, SKIPPED}
    THEN Tenths(t.steps[i].percentage_of_total)
    ELSE IF i < t.current_step_index THEN Tenths(t.steps[i].percentage_of_total)
    ELSE 0

StepShare(t, i) ==
    LET step == t.steps[i] IN
    IF i < t.current_step_index THEN Tenths(step.percentage_of_total)
    ELSE IF i = t.current_step_index THEN
        IF step.status = SUCCESS THEN Tenths(step.percentage_of_total)
        ELSE IF step.status = PROCESSING THEN 5 * step.percentage_of_total
        ELSE IF step.status = SKIPPED THEN Tenths(step.percentage_of_total)
        ELSE 0
    ELSE 0

RECURSIVE completed_percentage(_, _)
completed_percentage(t, n) ==
    IF n = 0 THEN 0 ELSE completed_percentage(t, n - 1) + StepShare(t, n - 1)

Min(a, b) == IF a <= b THEN a ELSE b

update_progress(t) ==
    [t EXCEPT !.overall_progress =
        Min(completed_percentage(t, NumSteps(t)), Tenths(100))]

to_dict(t) ==
    [steps |-> t.steps,
     currentStepId |-> get_current_step(t),
     overallProgress |-> t.overall_progress,
     endTime |-> t.end_time,
     isComplete |-> t.is_complete]

\* only one of the subscribers is sent the snapshot
notify_one_subscriber(t, qs) ==
    IF t.subscribers = {} THEN qs
    ELSE LET q == CHOOSE q \in t.subscribers : TRUE
         IN  [qs EXCEPT ![q] = Append(@, to_dict(t))]

notify_subscribers(t, qs) ==
    [q \in DOMAIN qs |->
        IF q \in t.subscribers THEN Append(qs[q], to_dict(t)) ELSE qs[q]]

\* The result of a call: the tracker and the queues after it, the value
\* returned and the exception raised ("None" when it returns normally).
Result(t, qs, ret, exc) == [t |-> t, qs |-> qs, ret |-> ret, exc |-> exc]

start_next_step(t, qs, details) ==
    LET t1 == [t EXCEPT !.current_step_index = @ + 1]
        i == t1.current_step_index
    IN  IF i < NumSteps(t1)
        THEN LET t2 == update_progress(
                         [t1 EXCEPT !.steps[i] = step_start(@, details)])
             IN  Result(t2, notify_subscribers(t2, qs), {i}, None)
        ELSE Result(t1, qs, {}, None)

\* complete / fail / skip share their shape: the guard, the indexing of
\* self.steps by current_step_index, the step's transition, the progress
\* and the notification.
current_step_transition(t, qs, kind, error, details) ==
    LET n == NumSteps(t)
        i == PyIndex(t.current_step_index, n)
    IN  IF t.current_step_index < n
        THEN IF i \notin DOMAIN t.steps
             THEN Result(t, qs, {}, "IndexError")
             ELSE LET step == t.steps[i]
                      moved == CASE kind = "complete" -> step_complete(step, details)
                                 [] kind = "fail" -> step_fail(step, error, details)
                                 [] kind = "skip" -> step_skip(step, details)
                      t2 == update_progress([t EXCEPT !.steps[i] = moved])
                  IN  Result(t2, notify_subscribers(t2, qs), {}, None)
        ELSE Result(t, qs, {}, None)

complete_current_step(t, qs, details) ==
    current_step_transition(t, qs, "complete", None, details)

fail_current_step(t, qs, error, details) ==
    current_step_transition(t, qs, "fail", error, details)

skip_current_step(t, qs, reason) ==
    current_step_transition(t, qs, "skip", None, reason)

\* complete_processing that leaves overall_progress as the stages left it
complete_processing_keeps_progress(t, qs) ==
    LET t2 == [t EXCEPT !.is_complete = TRUE, !.end_time = "set"]
    IN  Result(t2, notify_subscribers(t2, qs), {}, None)

\* complete_processing that tells no subscriber
complete_processing_without_notice(t, qs) ==
    LET t2 == [t EXCEPT !.is_complete = TRUE,
                        !.end_time = "set",
                        !.overall_progress = Tenths(100)]
    IN  Result(t2, qs, {}, None)

complete_processing(t, qs) ==
    LET t2 == [t EXCEPT !.is_complete = TRUE,
                        !.end_time = "set",
                        !.overall_progress = Tenths(100)]
    IN  Result(t2, notify_subscribers(t2, qs), {}, None)

\* subscribe that registers the queue and sends no initial state
subscribe_without_snapshot(t, qs, queue) ==
    Result([t EXCEPT !.subscribers = @ \cup {queue}], qs, {}, None)

subscribe(t, qs, queue) ==
    LET t2 == [t EXCEPT !.subscribers = @ \cup {queue}]
    IN  Result(t2, [qs EXCEPT ![queue] = Append(@, to_dict(t2))], {}, None)

\* unsubscribe by a bare set.remove: KeyError for a queue that is absent
unsubscribe_unguarded(t, qs, queue) ==
    IF queue \in t.subscribers
    THEN Result([t EXCEPT !.subscribers = @ \ {queue}], qs, {}, None)
    ELSE Result(t, qs, {}, "KeyError")

unsubscribe(t, qs, queue) ==
    IF queue \in t.subscribers
    THEN Result([t EXCEPT !.subscribers = @ \ {queue}], qs, {}, None)
    ELSE Result(t, qs, {}, None)

----------------------------------------------------------------------------
(* The trackers the model starts from *)

\* create_pdf_processing_tracker's six weights
StandardWeights == <<25, 20, 20, 15, 10, 10>>

\* the step lists of the trackers driven through the bare API
ApiWeights == {<< >>, <<60, 40>>, <<60, 60>>}

NoCall == [op |-> "init", arg |-> None, ret |-> {}, exc |-> None]
Call(op, arg, r) == [op |-> op, arg |-> arg, ret |-> r.ret, exc |-> r.exc]

Apply(op, arg, r) ==
    /\ calls < MaxCalls
    /\ calls' = calls + 1
    /\ tracker' = r.t
    /\ queues' = r.qs
    /\ lastCall' = Call(op, arg, r)

----------------------------------------------------------------------------
(* The tracker driven through its API by an arbitrary caller *)

StartNextStep ==
    /\ \E d \in DetailsArgs :
          Apply("start_next_step", d, start_next_step(tracker, queues, d))
    /\ UNCHANGED <<pipeVars, pdfVars, optVars, extraVars>>

CompleteCurrentStep ==
    /\ \E d \in DetailsArgs :
          Apply("complete_current_step", d,
                complete_current_step(tracker, queues, d))
    /\ UNCHANGED <<pipeVars, pdfVars, optVars, extraVars>>

FailCurrentStep ==
    /\ \E d \in DetailsArgs :
          Apply("fail_current_step", d,
                fail_current_step(tracker, queues, "Exception", d))
    /\ UNCHANGED <<pipeVars, pdfVars, optVars, extraVars>>

SkipCurrentStep ==
    /\ \E d \in DetailsArgs :
          Apply("skip_current_step", d, skip_current_step(tracker, queues, d))
    /\ UNCHANGED <<pipeVars, pdfVars, optVars, extraVars>>

CompleteProcessing ==
    /\ Apply("complete_processing", None, complete_processing(tracker, queues))
    /\ UNCHANGED <<pipeVars, pdfVars, optVars, extraVars>>

Subscribe ==
    /\ \E q \in Queues :
          /\ Apply("subscribe", q, subscribe(tracker, queues, q))
    /\ UNCHANGED <<pipeVars, pdfVars, optVars, extraVars>>

Unsubscribe ==
    /\ \E q \in Queues :
          Apply("unsubscribe", q, unsubscribe(tracker, queues, q))
    /\ UNCHANGED <<pipeVars, pdfVars, optVars, extraVars>>

\* the consumer's `await queue.get()`
QueueGet ==
    /\ \E q \in Queues :
          /\ queues[q] # << >>
          /\ calls < MaxCalls
          /\ calls' = calls + 1
          /\ queues' = [queues EXCEPT ![q] = Tail(@)]
          /\ lastCall' = [op |-> "queue_get", arg |-> q, ret |-> {}, exc |-> None]
    /\ UNCHANGED <<tracker, pipeVars, pdfVars, optVars, extraVars>>


----------------------------------------------------------------------------
(* PDFProcessor.process_pdf *)

\* the byte contents handed to process_pdf
Contents == {"A", "B"}
\* process_pdf is called at most this many times
MaxPdfCalls == 2
\* stop_after_attempt(3)
MaxAttempts == 3

NoRun == [content |-> None, attempt |-> 0]

\* One attempt of the body of process_pdf, up to its `return document` or
\* its re-raise.  The statements after them (the file hash, the lookup of an
\* existing document by hash) are never executed.
\*   "raise_commit": the first commit raises, no row is stored
\*   "raise_open":   fitz.open raises, no page is processed
\*   "raise_late":   a later statement (identify_sections) raises
process_pdf_attempt(docs, extr, content, outcome) ==
    LET document == [id |-> Len(docs) + 1,
                     filename |-> "file.pdf",
                     file_hash |-> None]
        stored == IF outcome = "raise_commit" THEN docs
                  ELSE Append(docs, document)
        ran == outcome \in {"ok", "raise_late"}
    IN  [docs |-> stored,
         extr |-> IF ran THEN [extr EXCEPT ![content] = @ + 1] ELSE extr,
         ret |-> IF outcome = "ok" THEN {document.id} ELSE {},
         exc |-> IF outcome = "ok" THEN None ELSE "Exception"]

PdfIdle ==
    /\ documents = << >>
    /\ pdfCalls = << >>
    /\ pdfRun = NoRun
    /\ extractions = [c \in Contents |-> 0]

PdfCall ==
    /\ pdfRun = NoRun
    /\ Len(pdfCalls) < MaxPdfCalls
    /\ \E c \in Contents : pdfRun' = [content |-> c, attempt |-> 1]
    /\ UNCHANGED <<documents, pdfCalls, extractions, trackerVars, pipeVars, optVars, extraVars>>

\* one attempt under @retry: a raise is retried until the third attempt
PdfAttempt ==
    /\ pdfRun # NoRun
    /\ \E o \in {"ok", "raise_commit", "raise_open", "raise_late"} :
          LET r == process_pdf_attempt(documents, extractions,
                                       pdfRun.content, o)
          IN  /\ documents' = r.docs
              /\ extractions' = r.extr
              /\ IF r.exc = None
                 THEN /\ pdfCalls' = Append(pdfCalls,
                            [content |-> pdfRun.content, ret |-> r.ret,
                             exc |-> None])
                      /\ pdfRun' = NoRun
                 ELSE IF pdfRun.attempt < MaxAttempts
                 THEN /\ pdfRun' = [pdfRun EXCEPT !.attempt = @ + 1]
                      /\ UNCHANGED pdfCalls
                 ELSE /\ pdfCalls' = Append(pdfCalls,
                            [content |-> pdfRun.content, ret |-> {},
                             exc |-> "RetryError"])
                      /\ pdfRun' = NoRun
    /\ UNCHANGED <<trackerVars, pipeVars, optVars, extraVars>>

----------------------------------------------------------------------------
(* BatchProcessor (backend/app/core/optimization.py) *)

\* MAX_RETRIES, the default of BatchProcessor.max_retries
MAX_RETRIES == 3

\* the longest batch handed to process_batch
MaxItems == 4

\* the batch is a prefix of these items
ItemPool == <<"a", "b", "c", "d", "e">>

\* process_func: the value it returns for an item when it does not raise
F(item) == <<"f", item>>

\* process_func: how many of its first calls on an item raise
ALWAYS == -1
FailCounts == {0, 1, 2, ALWAYS}
Raises(fails, item, nth) == fails[item] = ALWAYS \/ nth <= fails[item]

BatchStats ==
    [total_items |-> 0, processed_items |-> 0, successful_items |-> 0,
     failed_items |-> 0, errors |-> << >>]

\* _handle_error: one more failed item and one more error record
handle_error(stats, index, item, error) ==
    [stats EXCEPT !.failed_items = @ + 1,
                  !.errors = Append(@, [index |-> index, item |-> item,
                                        error |-> error])]

\* _safe_process run by executor.submit: the call is counted and the future
\* holds the value returned or the exception caught
safe_process(b, item) ==
    LET nth == b.called[item] + 1 IN
    [b |-> [b EXCEPT !.called[item] = nth],
     result |-> IF Raises(b.fails, item, nth) THEN "Exception" ELSE F(item)]

\* the loop of lines 80-82 from item index i on
RECURSIVE submit_all(_, _)
submit_all(b, i) ==
    IF i >= Len(b.items) THEN b
    ELSE LET sp == safe_process(b, b.items[i + 1])
         IN  submit_all([sp.b EXCEPT !.futures =
                            Append(@, [i |-> i, result |-> sp.result,
                                       next_attempt |-> 1])], i + 1)

\* the loop of lines 134-144 from position k of retry_items on
RECURSIVE submit_retries(_, _)
submit_retries(b, k) ==
    IF k > Len(b.retry_items) THEN b
    ELSE LET r == b.retry_items[k] IN
         IF r.attempts >= b.max_retries
         THEN submit_retries(
                 [b EXCEPT !.stats = handle_error(@, r.i, r.item,
                                                  "Max retries exceeded")],
                 k + 1)
         ELSE LET sp == safe_process(b, r.item)
              IN  submit_retries(
                     [sp.b EXCEPT !.futures =
                         Append(@, [i |-> r.i, result |-> sp.result,
                                    next_attempt |-> r.attempts + 1])],
                     k + 1)

\* one turn of the loop of lines 85-100
collect_initial(b) ==
    LET fu == b.futures[b.pos]
        b1 == [b EXCEPT !.pos = @ + 1]
    IN  IF fu.result = "Exception"
        THEN IF b.retry_failed
             THEN [b1 EXCEPT !.retry_items =
                      Append(@, [i |-> fu.i, item |-> b.items[fu.i + 1],
                                 attempts |-> 1])]
             ELSE [b1 EXCEPT !.stats = handle_error(@, fu.i, b.items[fu.i + 1],
                                                    "Exception")]
        ELSE [b1 EXCEPT !.results[fu.i] = fu.result,
                        !.stats.successful_items = @ + 1]

\* one turn of the loop of lines 146-155, with retry_items[i][1] read as
\* written: the list of this round indexed by the item's index in the batch
collect_retry(b) ==
    LET fu == b.futures[b.pos]
        b1 == [b EXCEPT !.pos = @ + 1]
    IN  IF fu.result = "Exception"
        THEN IF fu.i < Len(b.retry_items)
             THEN [b1 EXCEPT !.next_retry =
                      Append(@, [i |-> fu.i,
                                 item |-> b.retry_items[fu.i + 1].item,
                                 attempts |-> fu.next_attempt])]
             ELSE [b EXCEPT !.pc = "raised", !.exc = "IndexError"]
        ELSE [b1 EXCEPT !.results[fu.i] = fu.result,
                        !.stats.successful_items = @ + 1]

\* BatchProcessor(retry_failed = ..., max_retries = MAX_RETRIES) and the
\* arguments of the process_batch call made on it
BatchProcessor(items, fails, retry_failed) ==
    [pc |-> "new", items |-> items, fails |-> fails,
     retry_failed |-> retry_failed, max_retries |-> MAX_RETRIES,
     stats |-> BatchStats,
     called |-> [v \in DOMAIN fails |-> 0],
     results |-> << >>, futures |-> << >>, retry_items |-> << >>,
     next_retry |-> << >>, pos |-> 1, exc |-> None]

\* process_batch up to the submission of every item (lines 68-82)
ProcessBatch ==
    /\ batch.pc = "new"
    /\ batch' =
          IF batch.items = << >>
          THEN [batch EXCEPT !.pc = "returned"]
          ELSE [submit_all([batch EXCEPT
                    !.stats.total_items = @ + Len(batch.items),
                    !.results = [i \in 0..(Len(batch.items) - 1) |-> None]],
                    0)
                EXCEPT !.pc = "collect"]
    /\ UNCHANGED <<trackerVars, pipeVars, pdfVars, cache, dataset, approval, extraVars>>

BatchCollect ==
    /\ batch.pc = "collect"
    /\ batch' =
          IF batch.pos <= Len(batch.futures) THEN collect_initial(batch)
          ELSE IF batch.retry_items # << >> /\ batch.retry_failed
          THEN [batch EXCEPT !.pc = "retry"]
          ELSE [batch EXCEPT !.pc = "finish"]
    /\ UNCHANGED <<trackerVars, pipeVars, pdfVars, cache, dataset, approval, extraVars>>

\* the head of a round of _retry_failed_items (lines 130-144)
BatchRetrySubmit ==
    /\ batch.pc = "retry"
    /\ batch' =
          IF batch.retry_items = << >>
          THEN [batch EXCEPT !.pc = "finish"]
          ELSE [submit_retries([batch EXCEPT !.next_retry = << >>,
                                             !.futures = << >>], 1)
                EXCEPT !.pc = "retry_collect", !.pos = 1]
    /\ UNCHANGED <<trackerVars, pipeVars, pdfVars, cache, dataset, approval, extraVars>>

\* the rest of the round (lines 146-157)
BatchRetryCollect ==
    /\ batch.pc = "retry_collect"
    /\ batch' =
          IF batch.pos <= Len(batch.futures) THEN collect_retry(batch)
          ELSE [batch EXCEPT !.retry_items = batch.next_retry,
                             !.pc = "retry"]
    /\ UNCHANGED <<trackerVars, pipeVars, pdfVars, cache, dataset, approval, extraVars>>

\* lines 106-114
BatchFinish ==
    /\ batch.pc = "finish"
    /\ batch' = [batch EXCEPT !.stats.processed_items = @ + Len(batch.items),
                              !.pc = "returned"]
    /\ UNCHANGED <<trackerVars, pipeVars, pdfVars, cache, dataset, approval, extraVars>>

----------------------------------------------------------------------------
(* CacheManager (backend/app/core/optimization.py) *)

\* a caller makes at most this many calls to a cache
MaxCacheCalls == 5

CacheKeys == {"k1", "k2", "k3"}
CacheValues == {"v1", "v2"}

\* the max_size values and the max_memory_bytes values a cache is built with;
\* max_memory_bytes is None without a cap, and is tested for truth only, so
\* None is written 0
MaxSizes == {1, 2}
MaxMemories == {0, 3}

\* _estimate_size
estimate_size(value) == IF value = "v1" THEN 1 ELSE 2

CacheStats ==
    [hits |-> 0, misses |-> 0, evictions |-> 0, total_size_bytes |-> 0,
     items_count |-> 0]

\* Python dicts keep their keys in insertion order: _access_times is the
\* sequence of its (key, time) items, _cache a function on the same keys.
CacheManager(max_size, max_memory_bytes) ==
    [max_size |-> max_size, max_memory_bytes |-> max_memory_bytes,
     store |-> [k \in {} |-> None], access_times |-> << >>,
     stats |-> CacheStats, clock |-> 0, calls |-> 0,
     last |-> [op |-> "init", key |-> None, ret |-> None, evicted |-> << >>]]

\* the position of a key of the dict in its item sequence
DictPos(items, key) == CHOOSE k \in 1..Len(items) : items[k].key = key

\* d[key] = value on an insertion-ordered dict: a key already present keeps
\* its place
DictSet(items, key, time) ==
    IF \E k \in 1..Len(items) : items[k].key = key
    THEN [items EXCEPT ![DictPos(items, key)].time = time]
    ELSE Append(items, [key |-> key, time |-> time])

DictDel(items, key) ==
    LET p == DictPos(items, key)
    IN  SubSeq(items, 1, p - 1) \o SubSeq(items, p + 1, Len(items))

\* min(items, key = time): the first of the items with the least time
MinByTime(items) ==
    LET least == CHOOSE k \in 1..Len(items) :
                    /\ \A j \in 1..Len(items) : items[k].time <= items[j].time
                    /\ \A j \in 1..(k - 1) : items[j].time > items[k].time
    IN  items[least].key

\* max in place of min
MaxByTime(items) ==
    LET most == CHOOSE k \in 1..Len(items) :
                    /\ \A j \in 1..Len(items) : items[k].time >= items[j].time
                    /\ \A j \in 1..(k - 1) : items[j].time < items[k].time
    IN  items[most].key

evict_key(c, key) ==
    [c EXCEPT
        !.stats.total_size_bytes =
            IF c.max_memory_bytes # 0 THEN @ - estimate_size(c.store[key])
            ELSE @,
        !.store = [k \in (DOMAIN c.store) \ {key} |-> c.store[k]],
        !.access_times = DictDel(@, key),
        !.stats.evictions = @ + 1,
        !.stats.items_count = Cardinality(DOMAIN c.store) - 1,
        !.last.evicted = Append(@, key)]

evict_mru(c) ==
    IF DOMAIN c.store = {} THEN c ELSE evict_key(c, MaxByTime(c.access_times))

evict_lru(c) ==
    IF DOMAIN c.store = {} THEN c ELSE evict_key(c, MinByTime(c.access_times))

\* the loop of lines 373-377
RECURSIVE evict_for_memory(_, _)
evict_for_memory(c, value_size) ==
    IF /\ c.stats.total_size_bytes + value_size > c.max_memory_bytes
       /\ DOMAIN c.store # {}
    THEN evict_for_memory(evict_lru(c), value_size)
    ELSE c

\* the loop of lines 380-381
RECURSIVE evict_for_size(_)
evict_for_size(c) ==
    IF Cardinality(DOMAIN c.store) >= c.max_size /\ DOMAIN c.store # {}
    THEN evict_for_size(evict_lru(c))
    ELSE c

\* the start of a call: the call is counted and datetime.now() is read; the
\* clock has advanced since the last reading or shows the same microsecond
CacheEnter(c, op, key, now) ==
    [c EXCEPT !.calls = @ + 1, !.clock = now,
              !.last = [op |-> op, key |-> key, ret |-> None,
                        evicted |-> << >>]]

cache_get(c, key, now) ==
    LET c0 == CacheEnter(c, "get", key, now) IN
    IF key \in DOMAIN c.store
    THEN [c0 EXCEPT !.access_times = DictSet(@, key, now),
                    !.stats.hits = @ + 1,
                    !.last.ret = c.store[key]]
    ELSE [c0 EXCEPT !.stats.misses = @ + 1]

cache_set(c, key, value, now) ==
    LET c0 == CacheEnter(c, "set", key, now)
        c1 == IF c0.max_memory_bytes # 0
              THEN evict_for_memory(c0, estimate_size(value)) ELSE c0
        c2 == evict_for_size(c1)
        keys == (DOMAIN c2.store) \cup {key}
    IN  [c2 EXCEPT
            !.store = [k \in keys |-> IF k = key THEN value ELSE c2.store[k]],
            !.access_times = DictSet(@, key, now),
            !.stats.items_count = Cardinality(keys),
            !.stats.total_size_bytes =
                IF c2.max_memory_bytes # 0 THEN @ + estimate_size(value) ELSE @]

cache_clear(c) ==
    [CacheEnter(c, "clear", None, c.clock) EXCEPT
        !.store = [k \in {} |-> None],
        !.access_times = << >>,
        !.stats = CacheStats]

Nows == {cache.clock, cache.clock + 1}

CacheGet ==
    /\ cache.calls < MaxCacheCalls
    /\ \E key \in CacheKeys, now \in Nows : cache' = cache_get(cache, key, now)
    /\ UNCHANGED <<trackerVars, pipeVars, pdfVars, batch, dataset, approval, extraVars>>

CacheSet ==
    /\ cache.calls < MaxCacheCalls
    /\ \E key \in CacheKeys, value \in CacheValues, now \in Nows :
          cache' = cache_set(cache, key, value, now)
    /\ UNCHANGED <<trackerVars, pipeVars, pdfVars, batch, dataset, approval, extraVars>>

CacheClear ==
    /\ cache.calls < MaxCacheCalls
    /\ cache' = cache_clear(cache)
    /\ UNCHANGED <<trackerVars, pipeVars, pdfVars, batch, dataset, approval, extraVars>>

----------------------------------------------------------------------------
(* DatasetOptimizer (backend/app/core/optimization.py) *)

\* the longest dataset and the largest chunk_size
MaxData == 25
MaxChunkSize == 10
\* process_chunks is followed for lists of at most this many chunks
MaxChunks == 3

Strategies == {"size", "unknown"}
MaxConcurrents == {1, 2}

DatasetStats == [total_items |-> 0, processed_items |-> 0, chunks_created |-> 0]

\* range(0, n, step) for step > 0, as a sequence
PyRange(n, step) == [k \in 1..((n + step - 1) \div step) |-> (k - 1) * step]

\* data[i:j] for 0 <= i <= j: positions past the end are dropped
PySlice(data, i, j) == SubSeq(data, i + 1, Min(j, Len(data)))

\* the chunks of whole length only
size_chunks_without_tail(data, chunk_size) ==
    [k \in 1..(Len(data) \div chunk_size) |->
        PySlice(data, (k - 1) * chunk_size, k * chunk_size)]

\* the loop of lines 512-513
size_chunks(data, chunk_size) ==
    LET starts == PyRange(Len(data), chunk_size)
    IN  [k \in 1..Len(starts) |->
            PySlice(data, starts[k], starts[k] + chunk_size)]

\* the memory strategy is followed for lists of at most this many items
MaxMemoryData == 4

\* estimated sizes of the items and values of max_chunk_memory_mb, both in
\* MiB; NoBound is the argument left at its default, None
ItemSizes == {1, 2, 4}
NoBound == 0
ChunkMemories == {NoBound, 2, 3}

\* _estimate_size(item) of an item kept as <<position in the data, size>>
estimate_item_size(item) == item[2]

\* the for loop of lines 530-538 from item k on
RECURSIVE memory_loop(_, _, _, _, _, _)
memory_loop(data, k, limit, chunks, current_chunk, current_size) ==
    IF k > Len(data)
    THEN [chunks |-> chunks, current_chunk |-> current_chunk]
    ELSE LET item_size == estimate_item_size(data[k]) IN
         IF current_size + item_size > limit
         THEN memory_loop(data, k + 1, limit, Append(chunks, current_chunk),
                          <<data[k]>>, item_size)
         ELSE memory_loop(data, k + 1, limit, chunks,
                          Append(current_chunk, data[k]),
                          current_size + item_size)

\* lines 526-541: the list branch of the memory strategy
memory_chunks(data, max_chunk_memory_mb) ==
    LET end == memory_loop(data, 1, max_chunk_memory_mb, << >>, << >>, 0)
    IN  IF end.current_chunk # << >>
        THEN Append(end.chunks, end.current_chunk)
        ELSE end.chunks

chunk_dataset(d, data, strategy, max_chunk_memory_mb) ==
    LET d1 == [d EXCEPT !.stats.total_items = Len(data)] IN
    IF strategy = "size"
    THEN LET chunks == size_chunks(data, d.chunk_size)
         IN  [d1 EXCEPT !.chunks = chunks,
                        !.stats.chunks_created = Len(chunks),
                        !.pc = "chunked"]
    ELSE IF strategy = "memory"
    THEN IF max_chunk_memory_mb = NoBound
         THEN [d1 EXCEPT !.pc = "chunk_error", !.exc = "ValueError"]
         ELSE LET chunks == memory_chunks(data, max_chunk_memory_mb)
              IN  [d1 EXCEPT !.chunks = chunks,
                             !.stats.chunks_created = Len(chunks),
                             !.pc = "chunked"]
    ELSE [d1 EXCEPT !.pc = "chunk_error", !.exc = "ValueError"]

\* process_func: the list it returns for a chunk when it does not raise
ChunkResult(chunk) == [k \in 1..Len(chunk) |-> <<"r", chunk[k]>>]

\* the exception of process_func is propagated
chunk_failed_unhandled(d, i) ==
    [d EXCEPT !.tasks[i] = "failed", !.pc = "raised", !.exc = "Exception"]

\* lines 587-591: the exception of process_func is logged
chunk_failed(d, i) == [d EXCEPT !.tasks[i] = "failed"]

\* lines 580-581
chunk_succeeded(d, i) ==
    [d EXCEPT !.tasks[i] = "done",
              !.processed_results = @ \o ChunkResult(d.chunks[i]),
              !.stats.processed_items = @ + Len(d.chunks[i])]

Running(d) == {i \in DOMAIN d.tasks : d.tasks[i] = "running"}
Pending(d) == {i \in DOMAIN d.tasks : d.tasks[i] = "pending"}

DatasetOptimizer(chunk_size, data, strategy, max_concurrent) ==
    [pc |-> "new", chunk_size |-> chunk_size, data |-> data,
     strategy |-> strategy, max_chunk_memory_mb |-> NoBound,
     max_concurrent |-> max_concurrent,
     stats |-> DatasetStats, chunks |-> << >>, tasks |-> << >>,
     processed_results |-> << >>, exc |-> None]

ChunkDataset ==
    /\ dataset.pc = "new"
    /\ dataset' = chunk_dataset(dataset, dataset.data, dataset.strategy,
                                dataset.max_chunk_memory_mb)
    /\ UNCHANGED <<trackerVars, pipeVars, pdfVars, batch, cache, approval, extraVars>>

\* process_chunks up to asyncio.gather: one process_chunk task per chunk
ProcessChunks ==
    /\ dataset.pc = "chunked"
    /\ Len(dataset.chunks) <= MaxChunks
    /\ dataset' = [dataset EXCEPT
                      !.tasks = [i \in 1..Len(dataset.chunks) |-> "pending"],
                      !.pc = "processing"]
    /\ UNCHANGED <<trackerVars, pipeVars, pdfVars, batch, cache, approval, extraVars>>

\* `async with semaphore`: the tasks acquire it in the order they were created
ChunkStart ==
    /\ dataset.pc = "processing"
    /\ Cardinality(Running(dataset)) < dataset.max_concurrent
    /\ \E i \in Pending(dataset) :
          /\ \A j \in Pending(dataset) : i <= j
          /\ dataset' = [dataset EXCEPT !.tasks[i] = "running"]
    /\ UNCHANGED <<trackerVars, pipeVars, pdfVars, batch, cache, approval, extraVars>>

\* the awaited process_func of one running task ends: it returned or raised
ChunkFinish ==
    /\ dataset.pc = "processing"
    /\ \E i \in Running(dataset), raised \in BOOLEAN :
          dataset' = IF raised THEN chunk_failed(dataset, i)
                     ELSE chunk_succeeded(dataset, i)
    /\ UNCHANGED <<trackerVars, pipeVars, pdfVars, batch, cache, approval, extraVars>>

\* gather has every task's result: lines 598-599
ProcessChunksReturn ==
    /\ dataset.pc = "processing"
    /\ \A i \in DOMAIN dataset.tasks : dataset.tasks[i] \in {"done", "failed"}
    /\ dataset' = [dataset EXCEPT !.pc = "returned"]
    /\ UNCHANGED <<trackerVars, pipeVars, pdfVars, batch, cache, approval, extraVars>>

----------------------------------------------------------------------------
(* ApprovalWorkflow (backend/app/services/approval_workflow.py) *)

\* a caller makes at most this many calls to the workflow
MaxApprovalCalls == 5

\* proposal 1 exists, proposal 2 does not
ProposalIds == {1, 2}
UserIds == {1, 2, 3}
ReviewerLists == {<< >>, <<2>>, <<2, 3>>}
ReviewComments == {"", "Needs revision"}

\* dict.get(key, default), dict.update(other) and dict.pop(key, None) on a
\* dict kept as a function
DictGet(d, key, default) == IF key \in DOMAIN d THEN d[key] ELSE default
DictUpdate(d, other) ==
    [k \in (DOMAIN d) \cup (DOMAIN other) |->
        IF k \in DOMAIN other THEN other[k] ELSE d[k]]
DictPop(d, keys) == [k \in (DOMAIN d) \ keys |-> d[k]]

\* f"Rejected by {r['reviewer_id']}: {r['comments']}"
RejectedBy(r) == <<"Rejected by ", r.reviewer_id, ": ", r.comments>>

NoReturn == [status |-> None]

\* session.query(Proposal).filter(Proposal.id == proposal_id).first()
FindProposal(a, proposal_id) == IF proposal_id = 1 THEN {a.proposal} ELSE {}

\* the result of a call: the proposal after it, what it returned, what it
\* raised
Outcome(proposal, ret, exc) == [proposal |-> proposal, ret |-> ret, exc |-> exc]

submit_for_review(a, proposal_id, user_id, reviewers) ==
    LET proposal == a.proposal IN
    IF FindProposal(a, proposal_id) = {}
    THEN Outcome(proposal, NoReturn, "ValueError")
    ELSE IF proposal.status # "draft"
    THEN Outcome(proposal, NoReturn, "ValueError")
    ELSE LET md == DictUpdate(proposal.metadata,
                    [review_submitted_by |-> user_id,
                     review_submitted_at |-> "set",
                     reviewers |-> reviewers,
                     approvals |-> << >>,
                     rejections |-> << >>,
                     review_comments |-> << >>])
         IN  Outcome([status |-> "review", metadata |-> md],
                     [status |-> "review", metadata |-> md], None)

\* the review is closed by the first decision
close_review_at_first_decision(status, md) ==
    IF Len(md["rejections"]) = 0
    THEN [status |-> "approved", metadata |-> md]
    ELSE [status |-> "draft",
          metadata |-> DictPop(md, {"reviewers", "approvals", "rejections"})]

\* lines 80-95: the test of whether all reviewers have responded
close_review(status, md) ==
    IF Len(md["approvals"]) + Len(md["rejections"]) = Len(md["reviewers"])
    THEN IF Len(md["rejections"]) = 0
         THEN [status |-> "approved", metadata |-> md]
         ELSE [status |-> "draft",
               metadata |->
                   DictPop([md EXCEPT !["review_comments"] =
                               @ \o [k \in 1..Len(md["rejections"]) |->
                                        RejectedBy(md["rejections"][k])]],
                           {"reviewers", "approvals", "rejections"})]
    ELSE [status |-> status, metadata |-> md]

\* lines 67-78: the decision is appended to approvals or to rejections
record_decision(md, reviewer_id, approved, comments) ==
    LET review == [reviewer_id |-> reviewer_id,
                   decision |-> IF approved THEN "approved" ELSE "rejected",
                   comments |-> comments,
                   timestamp |-> "set"]
    IN  IF approved THEN [md EXCEPT !["approvals"] = Append(@, review)]
        ELSE [md EXCEPT !["rejections"] = Append(@, review)]

review_proposal(a, proposal_id, reviewer_id, approved, comments) ==
    LET proposal == a.proposal IN
    IF FindProposal(a, proposal_id) = {}
    THEN Outcome(proposal, NoReturn, "ValueError")
    ELSE IF proposal.status # "review"
    THEN Outcome(proposal, NoReturn, "ValueError")
    ELSE LET reviewers == DictGet(proposal.metadata, "reviewers", << >>) IN
         IF \A k \in 1..Len(reviewers) : reviewers[k] # reviewer_id
         THEN Outcome(proposal, NoReturn, "ValueError")
         ELSE LET md == record_decision(proposal.metadata, reviewer_id,
                                        approved, comments)
                  closed == close_review(proposal.status, md)
              IN  Outcome(closed, closed, None)

get_review_status(a, proposal_id) ==
    LET proposal == a.proposal
        md == proposal.metadata
    IN  IF FindProposal(a, proposal_id) = {}
        THEN Outcome(proposal, NoReturn, "ValueError")
        ELSE IF proposal.status \notin {"review", "approved"}
        THEN Outcome(proposal,
                     [status |-> proposal.status,
                      message |-> "Proposal is not under review"], None)
        ELSE Outcome(proposal,
                     [status |-> proposal.status,
                      metadata |-> md,
                      approvals |-> Len(DictGet(md, "approvals", << >>)),
                      rejections |-> Len(DictGet(md, "rejections", << >>)),
                      pending |-> Len(DictGet(md, "reviewers", << >>)) -
                                  (Len(DictGet(md, "approvals", << >>)) +
                                   Len(DictGet(md, "rejections", << >>)))],
                     None)

cancel_review(a, proposal_id, user_id) ==
    LET proposal == a.proposal IN
    IF FindProposal(a, proposal_id) = {}
    THEN Outcome(proposal, NoReturn, "ValueError")
    ELSE IF proposal.status # "review"
    THEN Outcome(proposal, NoReturn, "ValueError")
    ELSE IF DictGet(proposal.metadata, "review_submitted_by", None) # user_id
    THEN Outcome(proposal, NoReturn, "ValueError")
    ELSE Outcome([status |-> "draft",
                  metadata |-> DictPop(proposal.metadata,
                                  {"reviewers", "approvals", "rejections",
                                   "review_submitted_by",
                                   "review_submitted_at"})],
                 [status |-> "draft",
                  message |-> "Review cancelled successfully"], None)

\* a draft proposal with empty metadata, and what the caller has seen: the
\* last call, the reviewer list of the review under way (open) and the
\* decisions recorded in it, in the order they were given
ApprovalStart ==
    [proposal |-> [status |-> "draft", metadata |-> [k \in {} |-> None]],
     calls |-> 0,
     last |-> [op |-> "init", ret |-> NoReturn, exc |-> None],
     open |-> FALSE, reviewers |-> << >>, decisions |-> << >>]

ApprovalCall(a, op, o) ==
    [a EXCEPT !.proposal = o.proposal,
              !.calls = @ + 1,
              !.last = [op |-> op, ret |-> o.ret, exc |-> o.exc]]

SubmitForReview ==
    /\ approval.calls < MaxApprovalCalls
    /\ \E proposal_id \in ProposalIds, user_id \in UserIds,
          reviewers \in ReviewerLists :
          LET o == submit_for_review(approval, proposal_id, user_id, reviewers)
              a == ApprovalCall(approval, "submit_for_review", o)
          IN  approval' = IF o.exc = None
                          THEN [a EXCEPT !.open = TRUE,
                                         !.reviewers = reviewers,
                                         !.decisions = << >>]
                          ELSE a
    /\ UNCHANGED <<trackerVars, pipeVars, pdfVars, batch, cache, dataset, extraVars>>

ReviewProposal ==
    /\ approval.calls < MaxApprovalCalls
    /\ \E proposal_id \in ProposalIds, reviewer_id \in UserIds,
          approved \in BOOLEAN, comments \in ReviewComments :
          LET o == review_proposal(approval, proposal_id, reviewer_id,
                                   approved, comments)
              a == ApprovalCall(approval, "review_proposal", o)
          IN  approval' = IF o.exc = None
                          THEN [a EXCEPT !.decisions =
                                   Append(@, [reviewer_id |-> reviewer_id,
                                              approved |-> approved,
                                              comments |-> comments])]
                          ELSE a
    /\ UNCHANGED <<trackerVars, pipeVars, pdfVars, batch, cache, dataset, extraVars>>

GetReviewStatus ==
    /\ approval.calls < MaxApprovalCalls
    /\ \E proposal_id \in ProposalIds :
          approval' = ApprovalCall(approval, "get_review_status",
                                   get_review_status(approval, proposal_id))
    /\ UNCHANGED <<trackerVars, pipeVars, pdfVars, batch, cache, dataset, extraVars>>

CancelReview ==
    /\ approval.calls < MaxApprovalCalls
    /\ \E proposal_id \in ProposalIds, user_id \in UserIds :
          LET o == cancel_review(approval, proposal_id, user_id)
              a == ApprovalCall(approval, "cancel_review", o)
          IN  approval' = IF o.exc = None THEN [a EXCEPT !.open = FALSE]
                          ELSE a
    /\ UNCHANGED <<trackerVars, pipeVars, pdfVars, batch, cache, dataset, extraVars>>

----------------------------------------------------------------------------
(* The job registry (backend/app/services/processing_status.py,
   backend/app/api/endpoints/processing_status.py) *)

\* the registry is followed for at most this many calls and clock advances
MaxRegistryCalls == 8

\* the retention window of cleanup_old_trackers, in seconds
RETENTION == 3600

\* tracker.id values (uuid4 strings): never handed out twice
TrackerIds == {"t1", "t2", "t3"}

\* seconds that pass between two calls
Elapses == {1, 3600}

\* end_time of a tracker that has not completed (None in the source)
NoTime == -1

\* the fields of a ProcessingTracker the registry functions read
RegisteredTracker(id) == [id |-> id, is_complete |-> FALSE, end_time |-> NoTime]

\* the module-level dict, the wall clock, the ids handed out so far and the
\* last call with what it returned
Registry ==
    [trackers |-> [id \in {} |-> None], now |-> 0, calls |-> 0, created |-> {},
     last |-> [op |-> "init", id |-> None, ret |-> {}, exc |-> None]]

RegistryEnter(r, op, id) ==
    [r EXCEPT !.calls = @ + 1,
              !.last = [op |-> op, id |-> id, ret |-> {}, exc |-> None]]

create_pdf_processing_tracker(r, id) ==
    LET ids == (DOMAIN r.trackers) \cup {id}
    IN  [r EXCEPT !.trackers = [k \in ids |-> IF k = id THEN RegisteredTracker(id)
                                               ELSE r.trackers[k]],
                  !.created = @ \cup {id}]

\* active_trackers.get(tracker_id): the tracker, or nothing
get_tracker(r, tracker_id) ==
    IF tracker_id \in DOMAIN r.trackers THEN {r.trackers[tracker_id]} ELSE {}

\* the sweep also drops a tracker that completed exactly RETENTION seconds ago
cleanup_old_trackers_at_retention(r) ==
    LET to_remove == {id \in DOMAIN r.trackers :
                         /\ r.trackers[id].is_complete
                         /\ r.trackers[id].end_time # NoTime
                         /\ r.now - r.trackers[id].end_time >= RETENTION}
    IN  [r EXCEPT !.trackers = [id \in (DOMAIN @) \ to_remove |-> @[id]]]

cleanup_old_trackers(r) ==
    LET to_remove == {id \in DOMAIN r.trackers :
                         /\ r.trackers[id].is_complete
                         /\ r.trackers[id].end_time # NoTime
                         /\ r.now - r.trackers[id].end_time > RETENTION}
    IN  [r EXCEPT !.trackers = [id \in (DOMAIN @) \ to_remove |-> @[id]]]

\* GET /processing-status/{tracker_id}
get_processing_status(r, tracker_id) ==
    LET r0 == RegistryEnter(r, "get_processing_status", tracker_id)
        found == get_tracker(r, tracker_id)
    IN  IF found = {} THEN [r0 EXCEPT !.last.exc = "HTTPException 404"]
        ELSE [r0 EXCEPT !.last.ret = found]

\* GET /active-processing-tasks
get_active_tasks(r) ==
    LET r0 == cleanup_old_trackers(RegistryEnter(r, "get_active_tasks", None))
    IN  [r0 EXCEPT !.last.ret = {r0.trackers[id] : id \in DOMAIN r0.trackers}]

\* a file upload creates and registers a tracker for its background task
CreateTracker ==
    /\ \E id \in TrackerIds \ active_trackers.created :
          active_trackers' =
              create_pdf_processing_tracker(
                  RegistryEnter(active_trackers, "create_pdf_processing_tracker", id),
                  id)
    /\ active_trackers.calls < MaxRegistryCalls
    /\ UNCHANGED <<trackerVars, pipeVars, pdfVars, optVars, batchQueue, batchStats>>

\* the background task of a registered tracker calls complete_processing
RegistryCompleteProcessing ==
    /\ active_trackers.calls < MaxRegistryCalls
    /\ \E id \in DOMAIN active_trackers.trackers :
          /\ ~active_trackers.trackers[id].is_complete
          /\ active_trackers' =
                [RegistryEnter(active_trackers, "complete_processing", id)
                    EXCEPT !.trackers[id].is_complete = TRUE,
                           !.trackers[id].end_time = active_trackers.now]
    /\ UNCHANGED <<trackerVars, pipeVars, pdfVars, optVars, batchQueue, batchStats>>

\* time passes
ClockAdvance ==
    /\ active_trackers.calls < MaxRegistryCalls
    /\ \E d \in Elapses :
          active_trackers' =
              [RegistryEnter(active_trackers, "time passes", None)
                  EXCEPT !.now = @ + d]
    /\ UNCHANGED <<trackerVars, pipeVars, pdfVars, optVars, batchQueue, batchStats>>

GetProcessingStatus ==
    /\ active_trackers.calls < MaxRegistryCalls
    /\ \E tracker_id \in TrackerIds :
          active_trackers' = get_processing_status(active_trackers, tracker_id)
    /\ UNCHANGED <<trackerVars, pipeVars, pdfVars, optVars, batchQueue, batchStats>>

GetActiveTasks ==
    /\ active_trackers.calls < MaxRegistryCalls
    /\ active_trackers' = get_active_tasks(active_trackers)
    /\ UNCHANGED <<trackerVars, pipeVars, pdfVars, optVars, batchQueue, batchStats>>

----------------------------------------------------------------------------
(* BatchProcessor's work queue (backend/app/core/optimization.py) *)

\* at most this many items are ever put on the queue, and at most this many
\* get_batch calls are made
MaxQueued == 3
MaxGetBatchCalls == 3

BatchSizes == {1, 2}

\* the threads calling get_batch
Callers == {"c1", "c2"}

\* get_batch's timeout argument: the default, or None (block until an item
\* arrives)
Timeouts == {"1.0", None}

IdleCaller == [pc |-> "idle", items |-> << >>, timeout |-> None,
               q0 |-> << >>, alone |-> FALSE]

\* a BatchProcessor with an empty queue.Queue; the items are numbered in the
\* order they are put. adding: what an add_many_to_queue call in progress
\* has still to put. returned: the finished get_batch calls, each with
\* whether no other thread used the queue while it ran (alone) and, if so,
\* the queue as it was when the call started (q0) and when it returned (q1).
BatchQueue(batch_size) ==
    [batch_size |-> batch_size, queue |-> << >>, next |-> 1, adding |-> << >>,
     callers |-> [c \in Callers |-> IdleCaller], returned |-> << >>]

Active(b) == {c \in Callers : b.callers[c].pc # "idle"}

\* a step of thread th: no other get_batch call in progress ran alone
Interleave(b, th) ==
    [b EXCEPT !.callers = [c \in Callers |->
                              IF c # th /\ c \in Active(b)
                              THEN [@[c] EXCEPT !.alone = FALSE, !.q0 = << >>]
                              ELSE @[c]]]

\* self._queue.put(item)
queue_put(b, item) == [b EXCEPT !.queue = Append(@, item)]

\* the loop runs on whatever the queue holds, whatever the batch size
loop_condition_until_empty(b, items) == b.queue # << >>

\* len(items) < self.batch_size and not self._queue.empty()
loop_condition(b, items) == Len(items) < b.batch_size /\ b.queue # << >>

\* return items
get_batch_return(b, th) ==
    [b EXCEPT !.callers[th] = IdleCaller,
              !.returned = Append(@, [caller |-> th,
                                      items |-> b.callers[th].items,
                                      q0 |-> IF b.callers[th].alone
                                             THEN b.callers[th].q0 ELSE << >>,
                                      q1 |-> IF b.callers[th].alone
                                             THEN b.queue ELSE << >>,
                                      alone |-> b.callers[th].alone])]

AddToQueue ==
    /\ batchQueue.next + Len(batchQueue.adding) <= MaxQueued
    /\ batchQueue.adding = << >>
    /\ batchQueue' = [queue_put(Interleave(batchQueue, "producer"), batchQueue.next)
                         EXCEPT !.next = @ + 1]
    /\ UNCHANGED <<trackerVars, pipeVars, pdfVars, optVars, active_trackers, batchStats>>

\* add_many_to_queue(items) is called; its puts follow one at a time
AddManyToQueue ==
    /\ batchQueue.adding = << >>
    /\ \E n \in 2..3 :
          /\ batchQueue.next + n - 1 <= MaxQueued
          /\ batchQueue' = [batchQueue EXCEPT
                               !.adding = [k \in 1..n |-> batchQueue.next + k - 1],
                               !.next = @ + n]
    /\ UNCHANGED <<trackerVars, pipeVars, pdfVars, optVars, active_trackers, batchStats>>

\* one round of add_many_to_queue's for loop
AddManyPut ==
    /\ batchQueue.adding # << >>
    /\ batchQueue' = [queue_put(Interleave(batchQueue, "producer"),
                                Head(batchQueue.adding))
                         EXCEPT !.adding = Tail(@)]
    /\ UNCHANGED <<trackerVars, pipeVars, pdfVars, optVars, active_trackers, batchStats>>

\* a thread calls get_batch: items = []
GetBatch ==
    /\ Len(batchQueue.returned) + Cardinality(Active(batchQueue)) < MaxGetBatchCalls
    /\ \E th \in Callers \ Active(batchQueue), timeout \in Timeouts :
          batchQueue' =
              [batchQueue EXCEPT
                  !.callers[th] =
                      [pc |-> "loop", items |-> << >>, timeout |-> timeout,
                       q0 |-> IF Active(batchQueue) = {} /\ batchQueue.adding = << >>
                              THEN batchQueue.queue ELSE << >>,
                       alone |-> Active(batchQueue) = {}
                                     /\ batchQueue.adding = << >>]]
    /\ UNCHANGED <<trackerVars, pipeVars, pdfVars, optVars, active_trackers, batchStats>>

\* the while test of get_batch
GetBatchLoop ==
    /\ \E th \in Active(batchQueue) :
          /\ batchQueue.callers[th].pc = "loop"
          /\ LET b == Interleave(batchQueue, th) IN
             batchQueue' =
                 IF loop_condition(b, b.callers[th].items)
                 THEN [b EXCEPT !.callers[th].pc = "get"]
                 ELSE get_batch_return(b, th)
    /\ UNCHANGED <<trackerVars, pipeVars, pdfVars, optVars, active_trackers, batchStats>>

\* self._queue.get(timeout = timeout): the head of the queue; on a queue that
\* another caller has emptied meanwhile, queue.Empty after the timeout (the
\* except clause breaks out of the loop), or no return with timeout None
GetBatchGet ==
    /\ \E th \in Active(batchQueue) :
          /\ batchQueue.callers[th].pc = "get"
          /\ LET b == Interleave(batchQueue, th) IN
             IF b.queue # << >>
             THEN batchQueue' = [b EXCEPT !.queue = Tail(@),
                                          !.callers[th].items = Append(@, Head(b.queue)),
                                          !.callers[th].pc = "loop"]
             ELSE /\ b.callers[th].timeout # None
                  /\ batchQueue' = get_batch_return(b, th)
    /\ UNCHANGED <<trackerVars, pipeVars, pdfVars, optVars, active_trackers, batchStats>>

----------------------------------------------------------------------------
(* BatchProcessor's counters under concurrent process_batch calls
   (backend/app/core/optimization.py) *)

\* each process_batch call is given at most this many items
MaxBatchLen == 2

\* the threads calling process_batch on the same processor
Threads == {"p1", "p2"}

\* the holder of self._lock when nobody holds it
Unlocked == "unlocked"

\* BatchStats as the counters the calls update; errors holds one record per
\* _handle_error call
CounterStats ==
    [total_items |-> 0, processed_items |-> 0, successful_items |-> 0,
     failed_items |-> 0, errors |-> << >>, start_time |-> None,
     end_time |-> None]

Update(field, add) == [field |-> field, add |-> add]

\* the updates of self._stats one process_batch call makes, in program
\* order, for items whose process_func outcomes are ok (TRUE: returned) and
\* retry_failed = False: lines 71-73, then per item line 95 or
\* _handle_error (163, 171), then line 107
RECURSIVE ItemUpdates(_, _)
ItemUpdates(ok, i) ==
    IF i > Len(ok) THEN << >>
    ELSE (IF ok[i] THEN <<Update("successful_items", 1)>>
          ELSE <<Update("failed_items", 1), Update("errors", i)>>)
         \o ItemUpdates(ok, i + 1)

StatUpdates(ok) ==
    <<Update("total_items", Len(ok)), Update("start_time", 0)>>
    \o ItemUpdates(ok, 1)
    \o <<Update("processed_items", Len(ok))>>

\* the processor, the holder of its lock, and per thread: the outcomes of
\* its items, the updates its call has still to make, the value it has read
\* for the update it is in the middle of, and its position
BatchCounters(oks) ==
    [stats |-> CounterStats, lock |-> Unlocked, get_stats_calls |-> 0,
     threads |-> [t \in Threads |->
                     [pc |-> "idle", ok |-> oks[t], todo |-> << >>, read |-> 0]]]

\* a thread calls process_batch(items, process_func) with items non-empty
ProcessBatchCall ==
    /\ \E t \in Threads :
          /\ batchStats.threads[t].pc = "idle"
          /\ batchStats' = [batchStats EXCEPT
                               !.threads[t].pc = "running",
                               !.threads[t].todo =
                                   StatUpdates(batchStats.threads[t].ok)]
    /\ UNCHANGED <<trackerVars, pipeVars, pdfVars, optVars, active_trackers, batchQueue>>

\* self._stats.<counter> += n, first half: the counter is read
CounterRead ==
    /\ \E t \in Threads :
          LET th == batchStats.threads[t] IN
          /\ th.pc = "running"
          /\ th.todo # << >>
          /\ Head(th.todo).field \notin {"errors", "start_time"}
          /\ batchStats' = [batchStats EXCEPT
                               !.threads[t].pc = "read",
                               !.threads[t].read = batchStats.stats[Head(th.todo).field]]
    /\ UNCHANGED <<trackerVars, pipeVars, pdfVars, optVars, active_trackers, batchQueue>>

\* self._stats.<counter> += n, second half: the sum is stored
CounterWrite ==
    /\ \E t \in Threads :
          LET th == batchStats.threads[t] IN
          /\ th.pc = "read"
          /\ batchStats' = [batchStats EXCEPT
                               !.stats[Head(th.todo).field] = th.read + Head(th.todo).add,
                               !.threads[t].pc = "running",
                               !.threads[t].todo = Tail(@)]
    /\ UNCHANGED <<trackerVars, pipeVars, pdfVars, optVars, active_trackers, batchQueue>>

\* lines 72-73: start_time is set if it is not set yet
StartTimeSet ==
    /\ \E t \in Threads :
          LET th == batchStats.threads[t] IN
          /\ th.pc = "running"
          /\ th.todo # << >>
          /\ Head(th.todo).field = "start_time"
          /\ batchStats' = [batchStats EXCEPT
                               !.stats.start_time = "set",
                               !.threads[t].todo = Tail(@)]
    /\ UNCHANGED <<trackerVars, pipeVars, pdfVars, optVars, active_trackers, batchQueue>>

\* self._stats.errors.append(error_info): list.append is a single step
ErrorsAppend ==
    /\ \E t \in Threads :
          LET th == batchStats.threads[t] IN
          /\ th.pc = "running"
          /\ th.todo # << >>
          /\ Head(th.todo).field = "errors"
          /\ batchStats' = [batchStats EXCEPT
                               !.stats.errors = Append(@, [thread |-> t,
                                                           index |-> Head(th.todo).add]),
                               !.threads[t].todo = Tail(@)]
    /\ UNCHANGED <<trackerVars, pipeVars, pdfVars, optVars, active_trackers, batchQueue>>

\* return results
ProcessBatchReturn ==
    /\ \E t \in Threads :
          /\ batchStats.threads[t].pc = "running"
          /\ batchStats.threads[t].todo = << >>
          /\ batchStats' = [batchStats EXCEPT !.threads[t].pc = "returned"]
    /\ UNCHANGED <<trackerVars, pipeVars, pdfVars, optVars, active_trackers, batchQueue>>

\* get_stats(): with self._lock, end_time is set once start_time is; the
\* lock is free whenever it is asked for, since nothing else takes it
GetStats ==
    /\ batchStats.get_stats_calls < 1
    /\ batchStats.lock = Unlocked
    /\ batchStats' = [batchStats EXCEPT
                         !.get_stats_calls = @ + 1,
                         !.stats.end_time = IF batchStats.stats.start_time # None
                                               /\ @ = None
                                            THEN "set" ELSE @]
    /\ UNCHANGED <<trackerVars, pipeVars, pdfVars, optVars, active_trackers, batchQueue>>

PipeIdle ==
    /\ pc = "unused"
    /\ block = 0
    /\ registered = FALSE
    /\ stageLog = << >>
    /\ caught = None
    /\ wsPc = [q \in WsClients |-> "unused"]

Init ==
    /\ \E w \in ApiWeights : tracker = ProcessingTracker(w)
    /\ queues = [q \in Queues |-> << >>]
    /\ lastCall = NoCall
    /\ calls = 0
    /\ PipeIdle
    /\ PdfIdle
    /\ ExtraIdle
    /\ OptIdle

Next ==
    \/ StartNextStep
    \/ CompleteCurrentStep
    \/ FailCurrentStep
    \/ SkipCurrentStep
    \/ CompleteProcessing
    \/ Subscribe
    \/ Unsubscribe
    \/ QueueGet

Spec == Init /\ [][Next]_vars

----------------------------------------------------------------------------
(* process_pdf_file: the background task of the upload endpoint *)

\* the last "Step k" block of process_pdf_file
LastBlock == 6

\* How the work of block k, between its start_next_step and its
\* complete_current_step, can end.  Blocks 1 to 5 call into the processor
\* and the session, and a call returns or raises; block 6 does no work.
WorkOutcomes(k) == IF k < LastBlock THEN {"ok", "Exception"} ELSE {"ok"}

\* the `except Exception as e` handler
pipeline_except(t, qs, e) ==
    LET r == IF get_current_step(t) # {}
             THEN fail_current_step(t, qs, e, "details")
             ELSE Result(t, qs, {}, None)
    IN  complete_processing(r.t, r.qs)

\* a task that marks the job complete without completing its last stage
pipeline_complete_skips_last(t, qs, k) ==
    IF k = LastBlock
    THEN complete_processing(t, qs)
    ELSE complete_current_step(t, qs, "details")

\* complete_current_step of block k and what follows it up to the next
\* suspension: the inter-stage sleep, or complete_processing after the last
pipeline_complete(t, qs, k) ==
    LET r == complete_current_step(t, qs, "details")
    IN  IF k = LastBlock THEN complete_processing(r.t, r.qs) ELSE r

PipeSet(r, op) ==
    /\ tracker' = r.t
    /\ queues' = r.qs
    /\ lastCall' = Call(op, None, r)

PipeBegin ==
    /\ pc = "begin"
    /\ pc' = IF registered THEN "construct" ELSE "returned"
    /\ UNCHANGED <<trackerVars, block, registered, stageLog, caught, wsPc, pdfVars, optVars, extraVars>>

PipeConstruct ==
    /\ pc = "construct"
    /\ \E o \in {"ok", "Exception"} :
          IF o = "ok"
          THEN /\ pc' = "start"
               /\ UNCHANGED <<tracker, queues, lastCall, caught>>
          ELSE /\ PipeSet(pipeline_except(tracker, queues, o),
                          "complete_processing")
               /\ caught' = o
               /\ pc' = "done"
    /\ UNCHANGED <<calls, block, registered, stageLog, wsPc, pdfVars, optVars, extraVars>>

PipeStart ==
    /\ pc = "start"
    /\ LET r == start_next_step(tracker, queues, "details")
       IN  /\ PipeSet(r, "start_next_step")
           /\ stageLog' = Append(stageLog, r.ret)
    /\ pc' = "work"
    /\ UNCHANGED <<calls, block, registered, caught, wsPc, pdfVars, optVars, extraVars>>

PipeWork ==
    /\ pc = "work"
    /\ \E o \in WorkOutcomes(block) :
          IF o = "ok"
          THEN /\ PipeSet(pipeline_complete(tracker, queues, block),
                          IF block = LastBlock THEN "complete_processing"
                          ELSE "complete_current_step")
               /\ pc' = IF block = LastBlock THEN "done" ELSE "start"
               /\ block' = IF block = LastBlock THEN block ELSE block + 1
               /\ UNCHANGED caught
          ELSE /\ PipeSet(pipeline_except(tracker, queues, o),
                          "complete_processing")
               /\ caught' = o
               /\ pc' = "done"
               /\ UNCHANGED block
    /\ UNCHANGED <<calls, registered, stageLog, wsPc, pdfVars, optVars, extraVars>>

\* websocket_processing_status, one handler per connection: the handler
\* owns one queue, so a connection is named by its queue.

\* `finally: tracker.unsubscribe(queue)`
WsFinally(q) ==
    /\ PipeSet(unsubscribe(tracker, queues, q), "unsubscribe")
    /\ wsPc' = [wsPc EXCEPT ![q] = "closed"]

\* accept, get_tracker, `await tracker.subscribe(queue)`
WsConnect ==
    /\ \E q \in WsClients :
          /\ wsPc[q] = "idle"
          /\ IF registered
             THEN /\ PipeSet(subscribe(tracker, queues, q), "subscribe")
                  /\ wsPc' = [wsPc EXCEPT ![q] = "subscribed"]
             ELSE /\ wsPc' = [wsPc EXCEPT ![q] = "closed"]
                  /\ UNCHANGED <<tracker, queues, lastCall>>
    /\ UNCHANGED <<calls, pc, block, registered, stageLog, caught, pdfVars, optVars, extraVars>>

\* `await websocket.send_json(tracker.to_dict())`: sent, or the client is gone
WsSendInitial ==
    /\ \E q \in WsClients :
          /\ wsPc[q] = "subscribed"
          /\ \E sent \in BOOLEAN :
                IF sent
                THEN /\ wsPc' = [wsPc EXCEPT ![q] = "listening"]
                     /\ UNCHANGED <<tracker, queues, lastCall>>
                ELSE WsFinally(q)
    /\ UNCHANGED <<calls, pc, block, registered, stageLog, caught, pdfVars, optVars, extraVars>>

\* one turn of the loop: `data = await queue.get()`, send_json(data), and
\* the test of data["isComplete"]
WsForward ==
    /\ \E q \in WsClients :
          /\ wsPc[q] = "listening"
          /\ queues[q] # << >>
          /\ \E sent \in BOOLEAN :
                LET data == Head(queues[q])
                    qs == [queues EXCEPT ![q] = Tail(@)]
                IN  IF sent
                    THEN /\ queues' = qs
                         /\ tracker' = tracker
                         /\ lastCall' = [op |-> "queue_get", arg |-> q,
                                         ret |-> {}, exc |-> None]
                         /\ wsPc' = [wsPc EXCEPT ![q] =
                                IF data.isComplete THEN "grace" ELSE "listening"]
                    ELSE /\ PipeSet(unsubscribe(tracker, qs, q), "unsubscribe")
                         /\ wsPc' = [wsPc EXCEPT ![q] = "closed"]
    /\ UNCHANGED <<calls, pc, block, registered, stageLog, caught, pdfVars, optVars, extraVars>>

\* after `await asyncio.sleep(5)`: break, then the finally clause
WsClose ==
    /\ \E q \in WsClients :
          /\ wsPc[q] = "grace"
          /\ WsFinally(q)
    /\ UNCHANGED <<calls, pc, block, registered, stageLog, caught, pdfVars, optVars, extraVars>>

InitPipeline ==
    /\ tracker = ProcessingTracker(StandardWeights)
    /\ queues = [q \in Queues |-> << >>]
    /\ lastCall = NoCall
    /\ calls = 0
    /\ pc = "begin"
    /\ block = 1
    /\ registered = TRUE
    /\ stageLog = << >>
    /\ caught = None
    /\ wsPc = [q \in WsClients |-> "idle"]
    /\ PdfIdle
    /\ ExtraIdle
    /\ OptIdle

NextPipeline ==
    \/ PipeBegin
    \/ PipeConstruct
    \/ PipeStart
    \/ PipeWork
    \/ WsConnect
    \/ WsSendInitial
    \/ WsForward
    \/ WsClose

SpecPipeline == InitPipeline /\ [][NextPipeline]_vars

\* The event loop runs every task that is ready to run: the background task
\* process_pdf_file is only ever suspended in awaits that return, and a
\* handler that has its queue item, or whose sleep has ended, is resumed.
\* Whether and when a client connects is up to the client.
PipelineTaskStep == PipeBegin \/ PipeConstruct \/ PipeStart \/ PipeWork
HandlerTaskStep == WsSendInitial \/ WsForward \/ WsClose

SpecPipelineFair ==
    /\ InitPipeline
    /\ [][NextPipeline]_vars
    /\ WF_vars(PipelineTaskStep)
    /\ WF_vars(HandlerTaskStep)

TrackerIdle ==
    /\ tracker = ProcessingTracker(StandardWeights)
    /\ queues = [q \in Queues |-> << >>]
    /\ lastCall = NoCall
    /\ calls = 0

InitPdf ==
    /\ TrackerIdle
    /\ PipeIdle
    /\ PdfIdle
    /\ ExtraIdle
    /\ OptIdle

NextPdf ==
    \/ PdfCall
    \/ PdfAttempt

SpecPdf == InitPdf /\ [][NextPdf]_vars

InitBatch ==
    /\ TrackerIdle
    /\ PipeIdle
    /\ PdfIdle
    /\ ExtraIdle
    /\ \E n \in 0..MaxItems :
          LET items == SubSeq(ItemPool, 1, n)
              values == {items[k] : k \in 1..n}
          IN  \E fails \in [values -> FailCounts], retry_failed \in BOOLEAN :
                 batch = BatchProcessor(items, fails, retry_failed)
    /\ cache = None
    /\ dataset = None
    /\ approval = None

NextBatch ==
    \/ ProcessBatch
    \/ BatchCollect
    \/ BatchRetrySubmit
    \/ BatchRetryCollect
    \/ BatchFinish

SpecBatch == InitBatch /\ [][NextBatch]_vars

InitCache ==
    /\ TrackerIdle
    /\ PipeIdle
    /\ PdfIdle
    /\ ExtraIdle
    /\ batch = None
    /\ \E max_size \in MaxSizes, max_memory_bytes \in MaxMemories :
          cache = CacheManager(max_size, max_memory_bytes)
    /\ dataset = None
    /\ approval = None

NextCache ==
    \/ CacheGet
    \/ CacheSet
    \/ CacheClear

SpecCache == InitCache /\ [][NextCache]_vars

InitDataset ==
    /\ TrackerIdle
    /\ PipeIdle
    /\ PdfIdle
    /\ ExtraIdle
    /\ batch = None
    /\ cache = None
    /\ \E n \in 0..MaxData, chunk_size \in 1..MaxChunkSize,
          strategy \in Strategies, max_concurrent \in MaxConcurrents :
          dataset = DatasetOptimizer(chunk_size, [k \in 1..n |-> k], strategy,
                                     max_concurrent)
    /\ approval = None

NextDataset ==
    \/ ChunkDataset
    \/ ProcessChunks
    \/ ChunkStart
    \/ ChunkFinish
    \/ ProcessChunksReturn

SpecDataset == InitDataset /\ [][NextDataset]_vars

InitApproval ==
    /\ TrackerIdle
    /\ PipeIdle
    /\ PdfIdle
    /\ ExtraIdle
    /\ batch = None
    /\ cache = None
    /\ dataset = None
    /\ approval = ApprovalStart

NextApproval ==
    \/ SubmitForReview
    \/ ReviewProposal
    \/ GetReviewStatus
    \/ CancelReview

SpecApproval == InitApproval /\ [][NextApproval]_vars

InitRegistry ==
    /\ TrackerIdle
    /\ PipeIdle
    /\ PdfIdle
    /\ OptIdle
    /\ active_trackers = Registry
    /\ batchQueue = None
    /\ batchStats = None

NextRegistry ==
    \/ CreateTracker
    \/ RegistryCompleteProcessing
    \/ ClockAdvance
    \/ GetProcessingStatus
    \/ GetActiveTasks

SpecRegistry == InitRegistry /\ [][NextRegistry]_vars

InitQueue ==
    /\ TrackerIdle
    /\ PipeIdle
    /\ PdfIdle
    /\ OptIdle
    /\ active_trackers = None
    /\ \E batch_size \in BatchSizes : batchQueue = BatchQueue(batch_size)
    /\ batchStats = None

NextQueue ==
    \/ AddToQueue
    \/ AddManyToQueue
    \/ AddManyPut
    \/ GetBatch
    \/ GetBatchLoop
    \/ GetBatchGet

SpecQueue == InitQueue /\ [][NextQueue]_vars

\* lists of up to MaxMemoryData items of every size, chunked by memory under
\* every bound
InitMemoryChunks ==
    /\ TrackerIdle
    /\ PipeIdle
    /\ PdfIdle
    /\ ExtraIdle
    /\ batch = None
    /\ cache = None
    /\ \E n \in 0..MaxMemoryData :
          \E sizes \in [1..n -> ItemSizes], bound \in ChunkMemories :
              dataset = [DatasetOptimizer(1, [k \in 1..n |-> <<k, sizes[k]>>],
                                          "memory", 1)
                            EXCEPT !.max_chunk_memory_mb = bound]
    /\ approval = None

NextMemoryChunks == ChunkDataset

SpecMemoryChunks == InitMemoryChunks /\ [][NextMemoryChunks]_vars

InitCounters ==
    /\ TrackerIdle
    /\ PipeIdle
    /\ PdfIdle
    /\ OptIdle
    /\ active_trackers = None
    /\ batchQueue = None
    /\ \E n1, n2 \in 1..MaxBatchLen :
          \E ok1 \in [1..n1 -> BOOLEAN], ok2 \in [1..n2 -> BOOLEAN] :
              batchStats = BatchCounters([t \in Threads |->
                                             IF t = "p1" THEN ok1 ELSE ok2])

NextCounters ==
    \/ ProcessBatchCall
    \/ CounterRead
    \/ CounterWrite
    \/ StartTimeSet
    \/ ErrorsAppend
    \/ ProcessBatchReturn
    \/ GetStats

SpecCounters == InitCounters /\ [][NextCounters]_vars

----------------------------------------------------------------------------
(* Properties *)

StepsWith(t, status) == {i \in DOMAIN t.steps : t.steps[i].status = status}

\* the step made is a call of one of `ops`
Called(ops) == calls' = calls + 1 /\ lastCall'.op \in ops

\* C1: overall_progress never decreases: after every call its value is at
\* least its value before the call.
C1_ProgressNeverDecreases ==
    [][tracker'.overall_progress >= tracker.overall_progress]_vars

\* C2: in the state reached by complete_processing, overall_progress is 100
\* and is_complete is true, whatever the statuses of the stages.
C2_CompleteForcesFullProgress ==
    lastCall.op = "complete_processing" =>
        /\ tracker.overall_progress = Tenths(100)
        /\ tracker.is_complete

\* complete_processing was called with one stage in error and another still
\* processing
C2_Witness ==
    /\ lastCall.op = "complete_processing"
    /\ StepsWith(tracker, ERROR) # {}
    /\ StepsWith(tracker, PROCESSING) # {}

\* C3: in every reachable state at most one stage has status processing.
C3_AtMostOneProcessing ==
    Cardinality(StepsWith(tracker, PROCESSING)) <= 1

\* C4: with no current stage, complete_current_step, fail_current_step and
\* skip_current_step change no stage, leave overall_progress alone and
\* notify no subscriber.
C4_NoCurrentStageIsNoOp ==
    [][(/\ get_current_step(tracker) = {}
        /\ Called({"complete_current_step", "fail_current_step",
                   "skip_current_step"}))
       => /\ tracker'.steps = tracker.steps
          /\ tracker'.overall_progress = tracker.overall_progress
          /\ queues' = queues]_vars

\* C5: when no stage remains, start_next_step returns None and changes
\* neither the current stage, nor a stage, nor overall_progress, and sends
\* no notification.
C5_StartPastLastIsNoOp ==
    [][(/\ tracker.current_step_index >= NumSteps(tracker) - 1
        /\ Called({"start_next_step"}))
       => /\ lastCall'.ret = {}
          /\ get_current_step(tracker') = get_current_step(tracker)
          /\ tracker'.steps = tracker.steps
          /\ tracker'.overall_progress = tracker.overall_progress
          /\ queues' = queues]_vars

\* C6: subscribe(queue) adds the queue to the subscribers and puts the
\* tracker's current snapshot on it at once, so the queue holds a snapshot
\* without any further transition, also for a job that is already complete.
C6_SubscribeDeliversSnapshot ==
    lastCall.op = "subscribe" =>
        /\ lastCall.arg \in tracker.subscribers
        /\ queues[lastCall.arg] # << >>
        /\ queues[lastCall.arg][Len(queues[lastCall.arg])] = to_dict(tracker)

\* a queue subscribed after the job completed holds exactly the snapshot of
\* the completed job
C6_Witness ==
    /\ lastCall.op = "subscribe"
    /\ tracker.is_complete
    /\ queues[lastCall.arg] = <<to_dict(tracker)>>
    /\ to_dict(tracker).isComplete

\* C7: unsubscribe(queue) raises nothing and removes that queue only; for a
\* queue that is not subscribed it changes nothing, so a second unsubscribe
\* equals the first; the remaining subscribers get the next notification.
C7_UnsubscribeIdempotent ==
    [][/\ \A q \in Queues :
            (Called({"unsubscribe"}) /\ lastCall'.arg = q) =>
                /\ lastCall'.exc = None
                /\ tracker'.subscribers = tracker.subscribers \ {q}
                /\ q \notin tracker.subscribers =>
                      (tracker' = tracker /\ queues' = queues)
       /\ Called({"complete_processing"}) =>
            \A q \in tracker.subscribers :
                queues'[q] = Append(queues[q], to_dict(tracker'))]_vars

\* the second call ever made is an unsubscribe of q1, which was never
\* subscribed, while q2 is subscribed and keeps its snapshot
C7_Witness ==
    /\ calls = 2
    /\ lastCall.op = "unsubscribe"
    /\ lastCall.arg = "q1"
    /\ lastCall.exc = None
    /\ tracker.subscribers = {"q2"}
    /\ Len(queues["q2"]) = 1

\* C8: when process_pdf_file has caught an exception, the task ends with the
\* job complete, the failure stored on a stage in status error, and no
\* stage left in processing.
C8_FailureRecordedOnStage ==
    (pc = "done" /\ caught # None) =>
        /\ tracker.is_complete
        /\ StepsWith(tracker, PROCESSING) = {}
        /\ \E i \in StepsWith(tracker, ERROR) : tracker.steps[i].error = caught

C10_SecondCallReturnsSameDocument ==
    \A i, j \in DOMAIN pdfCalls :
        (/\ i < j
         /\ pdfCalls[i].content = pdfCalls[j].content
         /\ pdfCalls[i].exc = None
         /\ pdfCalls[j].exc = None)
        => /\ pdfCalls[j].ret = pdfCalls[i].ret
           /\ extractions[pdfCalls[i].content] = 1
           /\ Len(documents) <= Cardinality({pdfCalls[k].content : k \in DOMAIN pdfCalls})

\* process_batch has ended: it returned or an exception left it
BatchDone == batch.pc \in {"returned", "raised"}

BatchIndices == 0..(Len(batch.items) - 1)

ErrorsOf(i) == {k \in 1..Len(batch.stats.errors) : batch.stats.errors[k].index = i}

\* C11: for every batch and every item function, process_batch returns
\* normally with one slot per item, each holding that item's result or None;
\* no exception leaves process_batch.
C11_ProcessBatchNeverRaises ==
    BatchDone =>
        /\ batch.exc = None
        /\ batch.pc = "returned"
        /\ DOMAIN batch.results = BatchIndices
        /\ \A i \in BatchIndices :
              batch.results[i] = None \/ batch.results[i][1] = "f"

\* C12: with retry_failed, an item whose function raises on every call has
\* been attempted max_retries times when process_batch ends, has exactly one
\* error record, which says the retries are exhausted, is counted in
\* failed_items, and its slot is None.
C12_AlwaysFailingItemGivenUp ==
    (BatchDone /\ batch.retry_failed) =>
        \A i \in BatchIndices :
            batch.fails[batch.items[i + 1]] = ALWAYS =>
                /\ batch.called[batch.items[i + 1]] = batch.max_retries
                /\ Cardinality(ErrorsOf(i)) = 1
                /\ \A k \in ErrorsOf(i) :
                      batch.stats.errors[k].error = "Max retries exceeded"
                /\ batch.stats.failed_items = Len(batch.stats.errors)
                /\ batch.results[i] = None

\* C13: with retry_failed and max_retries = 3, when process_batch ends an
\* item whose function raises on its first call and succeeds on its second
\* has its result in its slot, is counted as successful (every filled slot
\* is counted once, no item of the batch as failed without an error record)
\* and has no error record.
C13_SecondAttemptSucceeds ==
    (BatchDone /\ batch.retry_failed) =>
        \A i \in BatchIndices :
            batch.fails[batch.items[i + 1]] = 1 =>
                /\ batch.results[i] # None
                /\ batch.results[i] = F(batch.items[i + 1])
                /\ ErrorsOf(i) = {}
                /\ batch.stats.failed_items = Len(batch.stats.errors)
                /\ batch.stats.successful_items =
                      Cardinality({j \in BatchIndices : batch.results[j] # None})

\* C14: every slot of the list process_batch returns is None or the result
\* of the item at that index, never the result of another item.
C14_ResultsKeepInputOrder ==
    batch.pc = "returned" =>
        \A i \in BatchIndices :
            batch.results[i] = None \/ batch.results[i] = F(batch.items[i + 1])

\* the keys whose recorded last access is the oldest
OldestKeys(c) ==
    {c.access_times[k].key : k \in
        {k \in 1..Len(c.access_times) :
            \A j \in 1..Len(c.access_times) :
                c.access_times[k].time <= c.access_times[j].time}}

CacheStep(op) == cache'.calls = cache.calls + 1 /\ cache'.last.op = op

\* a set of a key that is not in the cache while the cache holds max_size
\* entries
NewKeyIntoFull ==
    /\ CacheStep("set")
    /\ cache'.last.key \notin DOMAIN cache.store
    /\ Cardinality(DOMAIN cache.store) = cache.max_size

\* the call evicted one entry, an oldest one, and kept every other entry
EvictsOldestOnly ==
    \E k \in OldestKeys(cache) :
        /\ cache'.last.evicted = <<k>>
        /\ DOMAIN cache'.store =
              ((DOMAIN cache.store) \ {k}) \cup {cache'.last.key}
        /\ \A j \in (DOMAIN cache.store) \ {k} : cache'.store[j] = cache.store[j]

\* get returns None and counts a miss for a key that is not in the cache,
\* and returns the stored value of a key that is
GetReports ==
    CacheStep("get") =>
        LET key == cache'.last.key IN
        IF key \in DOMAIN cache.store
        THEN /\ cache'.last.ret = cache.store[key]
             /\ cache'.stats.misses = cache.stats.misses
        ELSE /\ cache'.last.ret = None
             /\ cache'.stats.misses = cache.stats.misses + 1

\* C15 as stated: a set of a new key into a cache holding max_size entries
\* evicts the entry with the oldest last access and no other; a get of a key
\* that is no longer in the cache returns None and counts a miss, a get of a
\* key still present returns its value.
C15_NewKeyEvictsOldestOnly ==
    [][(NewKeyIntoFull => EvictsOldestOnly) /\ GetReports]_vars

\* C15, amended: the same for a cache built without a memory cap.
C15_NewKeyEvictsOldestOnlyWithoutMemoryCap ==
    [][/\ (NewKeyIntoFull /\ cache.max_memory_bytes = 0) => EvictsOldestOnly
       /\ GetReports]_vars

\* set k1, set k2, then set k3 into the full cache of two: k1 is evicted
C15_Witness ==
    /\ cache.max_size = 2
    /\ cache.max_memory_bytes = 0
    /\ cache.calls = 3
    /\ cache.last.op = "set"
    /\ cache.last.key = "k3"
    /\ cache.last.evicted = <<"k1">>
    /\ DOMAIN cache.store = {"k2", "k3"}

\* the concatenation of a sequence of sequences, in order
RECURSIVE Flatten(_)
Flatten(seqs) ==
    IF seqs = << >> THEN << >>
    ELSE Flatten(SubSeq(seqs, 1, Len(seqs) - 1)) \o seqs[Len(seqs)]

RECURSIVE SumOver(_, _)
SumOver(f, S) ==
    IF S = {} THEN 0
    ELSE LET x == CHOOSE x \in S : TRUE IN f[x] + SumOver(f, S \ {x})

TasksIn(status) == {i \in DOMAIN dataset.tasks : dataset.tasks[i] = status}

\* C16: chunk_dataset with strategy size returns contiguous chunks whose
\* concatenation is the input: every chunk but the last has chunk_size
\* items, the last has between 1 and chunk_size, none is empty, and an empty
\* input gives no chunks.
C16_SizeChunksPartitionData ==
    (dataset.pc \notin {"new", "chunk_error"}) =>
        LET chunks == dataset.chunks
            n == Len(chunks)
        IN  /\ Flatten(chunks) = dataset.data
            /\ \A k \in 1..(n - 1) : Len(chunks[k]) = dataset.chunk_size
            /\ n > 0 => Len(chunks[n]) \in 1..dataset.chunk_size
            /\ dataset.data = << >> => chunks = << >>
            /\ dataset.stats.chunks_created = n

\* 25 items with chunk_size 10 are cut into chunks of 10, 10 and 5 items
C16_Witness ==
    /\ dataset.pc = "chunked"
    /\ Len(dataset.data) = 25
    /\ dataset.chunk_size = 10
    /\ [k \in 1..Len(dataset.chunks) |-> Len(dataset.chunks[k])] = <<10, 10, 5>>

\* C17: when every chunk succeeds, process_chunks returns the chunks'
\* results concatenated in the order of the chunks, whatever the order in
\* which the chunks finish.
C17_ResultsInSubmissionOrder ==
    (dataset.pc = "returned" /\ TasksIn("done") = DOMAIN dataset.tasks) =>
        dataset.processed_results =
            Flatten([i \in 1..Len(dataset.chunks) |->
                        ChunkResult(dataset.chunks[i])])

\* C18: process_chunks ends by returning; a chunk whose function raised has
\* no element in the output and is not counted in processed_items, every
\* other chunk ran to its end and has its whole result in the output.
C18_FailedChunkContributesNothing ==
    (dataset.pc \in {"returned", "raised"}) =>
        LET out == dataset.processed_results
            lens == [i \in DOMAIN dataset.tasks |-> Len(dataset.chunks[i])]
        IN  /\ dataset.pc = "returned"
            /\ dataset.exc = None
            /\ TasksIn("done") \cup TasksIn("failed") = DOMAIN dataset.tasks
            /\ {out[k] : k \in 1..Len(out)} =
                  UNION {{ChunkResult(dataset.chunks[i])[k] :
                            k \in 1..Len(dataset.chunks[i])} :
                         i \in TasksIn("done")}
            /\ Len(out) = SumOver(lens, TasksIn("done"))
            /\ dataset.stats.processed_items = SumOver(lens, TasksIn("done"))

\* of three chunks the second raised: the first and the third are in the
\* output
C18_Witness ==
    /\ dataset.pc = "returned"
    /\ dataset.tasks = <<"done", "failed", "done">>
    /\ Len(dataset.processed_results) =
          Len(dataset.chunks[1]) + Len(dataset.chunks[3])

\* a recorded decision as the caller gave it
Given(review) == <<review.reviewer_id, review.comments>>
GivenAll(reviews) == [k \in 1..Len(reviews) |-> Given(reviews[k])]

\* C19: after submit_for_review with reviewer list R, while the review is
\* not cancelled: the proposal is in review while fewer than |R| decisions
\* are recorded; it is approved exactly when the |R|-th decision has been
\* recorded and none was a rejection; approvals and rejections are kept in
\* the order given; get_review_status reports pending = |R| - approvals -
\* rejections.
C19_ApprovedAfterAllReviewers ==
    approval.open =>
        LET R == approval.reviewers
            D == approval.decisions
            status == approval.proposal.status
            md == approval.proposal.metadata
            last == approval.last
        IN  /\ Len(D) < Len(R) => status = "review"
            /\ status = "approved" <=>
                  /\ Len(D) = Len(R)
                  /\ Len(D) > 0
                  /\ \A k \in 1..Len(D) : D[k].approved
            /\ status \in {"review", "approved"} =>
                  /\ GivenAll(md["approvals"]) =
                        GivenAll(SelectSeq(D, LAMBDA d : d.approved))
                  /\ GivenAll(md["rejections"]) =
                        GivenAll(SelectSeq(D, LAMBDA d : ~d.approved))
            /\ (/\ last.op = "get_review_status"
                /\ last.exc = None
                /\ status \in {"review", "approved"}) =>
                  /\ last.ret.status = status
                  /\ last.ret.approvals = Len(SelectSeq(D, LAMBDA d : d.approved))
                  /\ last.ret.rejections = Len(SelectSeq(D, LAMBDA d : ~d.approved))
                  /\ last.ret.pending =
                        Len(R) - last.ret.approvals - last.ret.rejections

\* reviewers 2 and 3 approved in that order and the second approval made the
\* proposal approved
C19_Witness ==
    /\ approval.open
    /\ approval.reviewers = <<2, 3>>
    /\ approval.last.op = "review_proposal"
    /\ approval.last.exc = None
    /\ approval.last.ret.status = "approved"
    /\ [k \in 1..2 |-> approval.proposal.metadata["approvals"][k].reviewer_id]
          = <<2, 3>>

\* C20: when the decision that completes the review is a rejection,
\* review_proposal returns status draft and metadata that still holds the
\* rejection (exactly one for a single reviewer) and a review comment with
\* the reviewer's comment text.
C20_RejectionKeptInReturnedMetadata ==
    LET last == approval.last
        D == approval.decisions
    IN  (/\ last.op = "review_proposal"
         /\ last.exc = None
         /\ last.ret.status = "draft"
         /\ ~D[Len(D)].approved) =>
            /\ "rejections" \in DOMAIN last.ret.metadata
            /\ Len(last.ret.metadata["rejections"]) >= 1
            /\ Len(approval.reviewers) = 1 =>
                  Len(last.ret.metadata["rejections"]) = 1
            /\ \E k \in 1..Len(last.ret.metadata["review_comments"]) :
                  last.ret.metadata["review_comments"][k][4] =
                      D[Len(D)].comments

\* the call just made changed a stage: start_next_step returned a stage, or
\* one of the other three found the index below the number of stages
StageTransition ==
    /\ Called({"start_next_step", "complete_current_step",
               "fail_current_step", "skip_current_step"})
    /\ lastCall'.exc = None
    /\ IF lastCall'.op = "start_next_step" THEN lastCall'.ret # {}
       ELSE tracker.current_step_index < NumSteps(tracker)

\* the progress the rule gives, in tenths of a percent
ProgressByRule(t) ==
    LET cur == t.current_step_index
        below == {i \in DOMAIN t.steps : i < cur}
        full == [i \in DOMAIN t.steps |-> 10 * t.steps[i].percentage_of_total]
        current ==
            IF cur \notin DOMAIN t.steps THEN 0
            ELSE IF t.steps[cur].status \in {SUCCESS, SKIPPED} THEN full[cur]
            ELSE IF t.steps[cur].status = PROCESSING THEN full[cur] \div 2
            ELSE 0
        total == SumOver(full, below) + current
    IN  IF total > 1000 THEN 1000 ELSE total

StateChange == StageTransition \/ Called({"complete_processing"})

\* C22: every state-changing operation puts exactly one snapshot, of the
\* state it produced, at the end of every queue subscribed at that moment
\* and touches no other queue; on a completed job the newest snapshot in a
\* subscriber's queue has isComplete = true.
C22_OneSnapshotPerSubscriber ==
    [][/\ StateChange =>
            \A q \in Queues :
                queues'[q] = IF q \in tracker.subscribers
                             THEN Append(queues[q], to_dict(tracker'))
                             ELSE queues[q]
       /\ \A q \in tracker'.subscribers :
            (tracker'.is_complete /\ queues'[q] # << >>) =>
                queues'[q][Len(queues'[q])].isComplete]_vars

\* both queues are subscribed and complete_processing has put the final
\* snapshot at the end of each
C22_Witness ==
    /\ tracker.subscribers = Queues
    /\ lastCall.op = "complete_processing"
    /\ \A q \in Queues :
          /\ Len(queues[q]) >= 2
          /\ queues[q][Len(queues[q])] = to_dict(tracker)
          /\ queues[q][Len(queues[q])].isComplete

\* C28: a stage's status moves only from waiting to processing and from
\* processing to success, error or skipped; a stage in success, error or
\* skipped keeps its status; current_step_index never decreases.
C28_StatusesOnlyMoveForward ==
    [][/\ tracker'.current_step_index >= tracker.current_step_index
       /\ \A i \in DOMAIN tracker.steps :
            LET old == tracker.steps[i].status
                new == tracker'.steps[i].status
            IN  \/ new = old
                \/ old = WAITING /\ new = PROCESSING
                \/ old = PROCESSING /\ new \in {SUCCESS, ERROR, SKIPPED}]_vars

\* the trackers the sweep is to remove at time now: complete, with an
\* end_time more than one hour in the past
CompletedOverAnHourAgo(r) ==
    {id \in DOMAIN r.trackers :
        /\ r.trackers[id].is_complete
        /\ r.trackers[id].end_time + 3600 < r.now}

RegistryCall(op) ==
    /\ active_trackers'.calls = active_trackers.calls + 1
    /\ active_trackers'.last.op = op

\* C24: the sweep (run by get_active_tasks) removes exactly the trackers
\* that are complete with an end_time more than 3600 s in the past and keeps
\* every other tracker as it is; no other step removes a tracker; and
\* get_tracker returns the registered tracker for every id still in the
\* registry and nothing for any other id.
C24_SweepRemovesExactlyOldCompleted ==
    [][/\ IF RegistryCall("get_active_tasks")
          THEN /\ DOMAIN active_trackers'.trackers =
                     (DOMAIN active_trackers.trackers)
                         \ CompletedOverAnHourAgo(active_trackers)
               /\ \A id \in DOMAIN active_trackers'.trackers :
                     active_trackers'.trackers[id] = active_trackers.trackers[id]
          ELSE DOMAIN active_trackers.trackers \subseteq DOMAIN active_trackers'.trackers
       /\ RegistryCall("get_processing_status") =>
             LET id == active_trackers'.last.id IN
             IF id \in DOMAIN active_trackers.trackers
             THEN /\ active_trackers'.last.ret = {active_trackers.trackers[id]}
                  /\ active_trackers'.last.exc = None
             ELSE /\ active_trackers'.last.ret = {}
                  /\ active_trackers'.last.exc # None]_vars

\* a sweep has just removed t1, completed 3601 s ago, and has kept t2,
\* completed exactly 3600 s ago, and t3, older than both but not complete
C24_Witness ==
    /\ active_trackers.last.op = "get_active_tasks"
    /\ active_trackers.created = TrackerIds
    /\ DOMAIN active_trackers.trackers = {"t2", "t3"}
    /\ active_trackers.trackers["t2"].is_complete
    /\ active_trackers.now - active_trackers.trackers["t2"].end_time = 3600
    /\ ~active_trackers.trackers["t3"].is_complete

\* how many times item x occurs in sequence q
Occurrences(q, x) == Cardinality({k \in 1..Len(q) : q[k] = x})

\* the number of calls, finished or in progress, that hold item x
Holders(x) ==
    Cardinality({k \in 1..Len(batchQueue.returned) :
                    Occurrences(batchQueue.returned[k].items, x) > 0})
    + Cardinality({c \in Callers : Occurrences(batchQueue.callers[c].items, x) > 0})

\* C25: a get_batch call returns the first min(batch_size, number queued)
\* items of the queue in the order they were added and leaves the rest
\* queued (an empty list on an empty queue); with concurrent callers every
\* item put on the queue is either still queued or held by exactly one
\* call, once, and each call holds its items in the order they were added.
C25_GetBatchTakesFromTheFront ==
    /\ \A k \in 1..Len(batchQueue.returned) :
          LET r == batchQueue.returned[k]
              n == Min(batchQueue.batch_size, Len(r.q0))
          IN  /\ r.alone =>
                    /\ r.items = SubSeq(r.q0, 1, n)
                    /\ r.q1 = SubSeq(r.q0, n + 1, Len(r.q0))
              /\ \A i, j \in 1..Len(r.items) : i < j => r.items[i] < r.items[j]
    /\ \A x \in 1..(batchQueue.next - 1) :
          Occurrences(batchQueue.queue, x) + Holders(x)
              + Occurrences(batchQueue.adding, x) = 1
    /\ \A x \in 1..(batchQueue.next - 1) :
          \A k \in 1..Len(batchQueue.returned) :
              Occurrences(batchQueue.returned[k].items, x) <= 1

\* one call ran alone on a queue longer than batch_size, and two calls that
\* ran at the same time shared the items between them
C25_Witness ==
    /\ \E k \in 1..Len(batchQueue.returned) :
          /\ batchQueue.returned[k].alone
          /\ Len(batchQueue.returned[k].q0) > batchQueue.batch_size
          /\ Len(batchQueue.returned[k].items) = batchQueue.batch_size
    /\ \E k, l \in 1..Len(batchQueue.returned) :
          /\ ~batchQueue.returned[k].alone
          /\ ~batchQueue.returned[l].alone
          /\ batchQueue.returned[k].caller # batchQueue.returned[l].caller
          /\ batchQueue.returned[k].items # << >>
          /\ batchQueue.returned[l].items # << >>

\* C26: chunk_dataset with strategy 'memory' on a list returns non-empty
\* chunks whose concatenation is the input and whose items' estimated sizes
\* sum to at most max_chunk_memory each, for every input; with no bound it
\* raises a configuration error.
C26_MemoryChunksWithinBound ==
    (dataset.strategy = "memory" /\ dataset.pc # "new") =>
        IF dataset.max_chunk_memory_mb = NoBound
        THEN dataset.pc = "chunk_error" /\ dataset.exc = "ValueError"
        ELSE /\ dataset.pc = "chunked"
             /\ Flatten(dataset.chunks) = dataset.data
             /\ \A i \in 1..Len(dataset.chunks) :
                   LET chunk == dataset.chunks[i]
                       size == [k \in 1..Len(chunk) |-> estimate_item_size(chunk[k])]
                   IN  /\ chunk # << >>
                       /\ SumOver(size, 1..Len(chunk)) <= dataset.max_chunk_memory_mb

\* the items given to all the calls, and those whose process_func raised
ItemsGiven == SumOver([t \in Threads |-> Len(batchStats.threads[t].ok)], Threads)
ItemsFailed ==
    SumOver([t \in Threads |->
                Cardinality({i \in 1..Len(batchStats.threads[t].ok) :
                                ~batchStats.threads[t].ok[i]})], Threads)

\* C27: a thread that has read a counter and not yet stored it holds the
\* processor's lock; and once all concurrent process_batch calls have
\* returned, total_items and processed_items are the sum of the batch
\* lengths, successful_items + failed_items is total_items, and there is one
\* error record per failed item.
C27_CountersUpdatedUnderLock ==
    /\ \A t \in Threads :
          batchStats.threads[t].pc = "read" => batchStats.lock = t
    /\ (\A t \in Threads : batchStats.threads[t].pc = "returned") =>
          /\ batchStats.stats.total_items = ItemsGiven
          /\ batchStats.stats.processed_items = ItemsGiven
          /\ batchStats.stats.successful_items + batchStats.stats.failed_items
                = batchStats.stats.total_items
          /\ Len(batchStats.stats.errors) = ItemsFailed

\* the bookkeeping of CacheManager c agrees with what it holds
CacheConsistent(c) ==
    /\ {c.access_times[k].key : k \in 1..Len(c.access_times)} = DOMAIN c.store
    /\ c.stats.items_count = Cardinality(DOMAIN c.store)
    /\ c.stats.items_count <= c.max_size
    /\ c.max_memory_bytes # 0 =>
          c.stats.total_size_bytes =
              SumOver([k \in DOMAIN c.store |-> estimate_size(c.store[k])],
                      DOMAIN c.store)

\* C29: after every get, set and clear the cache and the access-time map
\* have the same keys, items_count is the number of entries and at most
\* max_size, and under a memory cap total_size_bytes is the sum of the
\* estimated sizes of the cached values; a set on a key already present
\* evicts no other entry.
C29_BookkeepingConsistent ==
    [][/\ CacheConsistent(cache')
       /\ (cache'.last.op = "set" /\ cache'.last.key \in DOMAIN cache.store) =>
             \A k \in 1..Len(cache'.last.evicted) :
                 cache'.last.evicted[k] = cache'.last.key]_vars

\* C30: a proposal is approved only if every reviewer of the submitted list
\* has recorded an approval and nobody a rejection, so decisions repeated by
\* one reviewer do not complete the review; and a proposal in review with a
\* non-empty reviewer list can leave review: the submitter's cancel_review
\* succeeds and takes it out of review.
C30_ApprovedOnlyByEveryReviewer ==
    LET R == approval.reviewers
        D == approval.decisions
        status == approval.proposal.status
    IN  /\ (approval.open /\ status = "approved") =>
              /\ \A i \in 1..Len(R) :
                    \E k \in 1..Len(D) : D[k].reviewer_id = R[i] /\ D[k].approved
              /\ \A k \in 1..Len(D) : D[k].approved
        /\ (approval.open /\ status = "review" /\ R # << >>) =>
              LET submitter == approval.proposal.metadata["review_submitted_by"]
                  o == cancel_review(approval, 1, submitter)
              IN  o.exc = None /\ o.proposal.status # "review"

\* C23: a handler that has subscribed to a job that completes eventually
\* ends; it leaves its loop for the grace period only on forwarding a
\* snapshot with isComplete = true, still subscribed, and otherwise ends
\* only because its client is gone; only the handler's own exit removes its
\* queue from the subscribers; and a handler that has ended, on either
\* path, is not subscribed.
C23_HandlerLeavesAfterCompletion ==
    /\ \A q \in WsClients :
          (wsPc[q] \in {"subscribed", "listening", "grace"})
              ~> (wsPc[q] = "closed")
    /\ [](\A q \in WsClients :
            wsPc[q] = "closed" => q \notin tracker.subscribers)
    /\ [][\A q \in WsClients :
            /\ (q \in tracker.subscribers /\ q \notin tracker'.subscribers) =>
                  /\ wsPc[q] # "closed"
                  /\ wsPc'[q] = "closed"
                  /\ lastCall'.op = "unsubscribe"
            /\ (wsPc[q] # "grace" /\ wsPc'[q] = "grace") =>
                  /\ Head(queues[q]).isComplete
                  /\ tracker.is_complete
                  /\ q \in tracker'.subscribers]_vars

\* the handler forwarded the final snapshot, waited, and has unsubscribed
\* from the completed job
C23_Witness ==
    /\ wsPc["q1"] = "closed"
    /\ lastCall.op = "unsubscribe"
    /\ tracker.is_complete
    /\ pc = "done"
    /\ queues["q1"] = << >>
    /\ "q1" \notin tracker.subscribers

====
